---- MODULE Spec2Model ----
(***************************************************************************)
(* Runtime state orchestration of AutoZeroFrameAction.                     *)
(*                                                                         *)
(* StateManager (src/src/services/state_manager.rs) owns the AppState      *)
(* (src/src/models/state.rs), notifies a list of synchronous observers     *)
(* and publishes StateChangeEvents on a tokio broadcast channel; it loads  *)
(* and saves the AppState from/to a JSON state file.                       *)
(***************************************************************************)
EXTENDS Integers, Sequences, FiniteSets, TLC

\* ------------------------------------------------------------------------
\* Bounds of the model
\* ------------------------------------------------------------------------
\* the clock runs from 0 to MaxTime ticks
MaxTime == 1
\* the observer list holds at most MaxObservers entries
MaxObservers == 2
\* at most MaxPublished events are stored on the broadcast channel in a run
MaxPublished == 4
\* number of slots of the broadcast channel (broadcast::channel(100) in the
\* program, scaled down so that a lagging receiver is reachable)
Capacity == 2
\* clock ticks per second: SystemTime is finer than the whole seconds that
\* system_time_serde writes
TicksPerSec == 2

\* size in characters of the title buffer of enum_windows_proc (256 in the
\* program, scaled down so that a title that does not fit is reachable)
TitleBuf == 3
\* the callback list holds at most MaxCallbacks entries
MaxCallbacks == 2
\* at most MaxQueue WindowEvents wait on the channel
MaxQueue == 1
\* width in bits of i32 and u32 (32 in the program, scaled down)
IntBits == 4
\* an enumeration of the desktop reports at most MaxWindows windows
MaxWindows == 2
\* the monotonic clock runs from 0 to MaxInstant
MaxInstant == 4
\* at most MaxThreads polling threads exist at a time
MaxThreads == 2
\* set_max_history is called with 0..MaxSetHistory
MaxSetHistory == 2
\* at most MaxSaveTasks spawned saves have not ended
MaxSaveTasks == 2
\* the calls that make WindowEvents are made while the channel holds fewer
\* than MaxStream events
MaxStream == 2

\* the observer objects and the subscribers of the event bus
ObserverIds == {1, 2}
SubscriberIds == {1, 2}

\* ------------------------------------------------------------------------
\* models/state.rs
\* ------------------------------------------------------------------------
ProgramState == {"Stopped", "Starting", "Running", "Stopping"}
GameState == {"NotDetected", "Detected", "InBattle"}

\* AppState::default
AppState_new(t) ==
    [program_state |-> "Stopped", game_state |-> "NotDetected", last_updated |-> t]

\* AppState::update_program_state
update_program_state(s, p, t) ==
    [s EXCEPT !.program_state = p, !.last_updated = t]

update_game_state_NoStamp(s, g, t) ==
    [s EXCEPT !.game_state = g]

\* AppState::update_game_state
update_game_state(s, g, t) ==
    [s EXCEPT !.game_state = g, !.last_updated = t]

can_start_core_NoBattle(s) ==
    s.program_state = "Stopped" /\ s.game_state = "Detected"

\* AppState::can_start_core
can_start_core(s) ==
    s.program_state = "Stopped" /\ s.game_state \in {"Detected", "InBattle"}

\* AppState::can_stop_core
can_stop_core(s) ==
    s.program_state = "Running"

\* system_time_serde::serialize, as_secs of the duration since UNIX_EPOCH
serialize_time(t) == t \div TicksPerSec

deserialize_time_Raw(secs) == secs

\* system_time_serde::deserialize, UNIX_EPOCH + Duration::from_secs(secs)
deserialize_time(secs) == secs * TicksPerSec

\* serde_json::to_string_pretty(&AppState): the text of the state file, one
\* element per field in the order serde writes them
to_json(s) ==
    <<s.program_state, s.game_state, serialize_time(s.last_updated)>>

\* whether serde_json::from_str::<AppState> accepts the text: a text cut
\* short (an empty or partly written file) does not parse
parses(j) == Len(j) = 3

\* serde_json::from_str::<AppState> of a text that parses
from_json(j) ==
    [program_state |-> j[1], game_state |-> j[2],
     last_updated |-> deserialize_time(j[3])]

\* ------------------------------------------------------------------------
\* StateChangeEvent and the broadcast channel
\* ------------------------------------------------------------------------
ProgramStateChanged_Swapped(old, new, t) ==
    [type |-> "ProgramStateChanged", old_state |-> new, new_state |-> old, timestamp |-> t]

ProgramStateChanged(old, new, t) ==
    [type |-> "ProgramStateChanged", old_state |-> old, new_state |-> new, timestamp |-> t]

GameStateChanged(old, new, t) ==
    [type |-> "GameStateChanged", old_state |-> old, new_state |-> new, timestamp |-> t]

\* number of live receivers of the channel
rx_cnt(rcv) == Cardinality({s \in DOMAIN rcv : rcv[s].active})

\* broadcast::channel: an empty ring, no event sent yet
EmptyChannel == [buffer |-> <<>>, tail |-> 0]

\* position of the oldest event the ring still holds
OldestRetained(ch) == ch.tail - Len(ch.buffer) + 1

BroadcastSend_NoEvict(ch, rcv, ev) ==
    IF rx_cnt(rcv) = 0
    THEN [chan |-> ch, result |-> "Err"]
    ELSE [chan |-> [buffer |-> Append(ch.buffer, ev), tail |-> ch.tail + 1],
          result |-> "Ok"]

\* broadcast::Sender::send: fails when there is no receiver, otherwise stores
\* the event, overwriting the oldest slot when the ring is full; never waits
BroadcastSend(ch, rcv, ev) ==
    IF rx_cnt(rcv) = 0
    THEN [chan |-> ch, result |-> "Err"]
    ELSE [chan |-> [buffer |-> IF Len(ch.buffer) < Capacity
                               THEN Append(ch.buffer, ev)
                               ELSE Append(Tail(ch.buffer), ev),
                    tail |-> ch.tail + 1],
          result |-> "Ok"]

BroadcastRecv_SkipsOne(ch, next) ==
    IF next < OldestRetained(ch)
    THEN [item |-> [type |-> "Lagged", missed |-> OldestRetained(ch) - next, pos |-> 0],
          next |-> OldestRetained(ch)]
    ELSE [item |-> [type |-> "Event", event |-> ch.buffer[next - OldestRetained(ch) + 1],
                    pos |-> next],
          next |-> next + 2]

\* broadcast::Receiver::recv with something to read at cursor next: a cursor
\* that points before the oldest retained event gets Lagged(missed) and is
\* moved to the oldest retained event; otherwise the event at the cursor
BroadcastRecv(ch, next) ==
    IF next < OldestRetained(ch)
    THEN [item |-> [type |-> "Lagged", missed |-> OldestRetained(ch) - next, pos |-> 0],
          next |-> OldestRetained(ch)]
    ELSE [item |-> [type |-> "Event", event |-> ch.buffer[next - OldestRetained(ch) + 1],
                    pos |-> next],
          next |-> next + 1]

\* a receiver that subscribe_events has not created yet
NoReceiver == [active |-> FALSE, start |-> 0, next |-> 0, got |-> <<>>]

\* Option<T>
None == <<>>
Some(x) == <<x>>
is_some(o) == o # <<>>
unwrap(o) == o[1]

\* ------------------------------------------------------------------------
\* State
\* ------------------------------------------------------------------------
VARIABLES
    state,               \* StateManager.state: the AppState behind the RwLock
    observers,           \* StateManager.observers: Vec<Arc<dyn StateObserver>>
    chan,                \* StateManager.event_sender: the broadcast channel
    receivers,           \* the broadcast::Receivers handed out by subscribe_events
    persistence_config,  \* StateManager.persistence_config: Option<StatePersistenceConfig>
    auto_save_handle,    \* StateManager.auto_save_handle is Some
    auto_save_tasks,     \* number of spawned auto-save tasks that are alive
    file,                \* content of the state file, None when it does not exist
    now,                 \* SystemTime::now(), in ticks
    pc,                  \* position of the transition call in flight
    lastCall,            \* the latest StateManager call: what it was given and what it did
    prevCall,            \* the call before lastCall when that was a start_core that
                         \* returned Ok, NoCall otherwise
    published,           \* history: every event stored on the channel, in order
    tasks,               \* the auto-save tasks spawned by start_auto_save
    reader,              \* a caller of get_state on another task
    desktop,             \* the top-level windows of the OS, in enumeration order
    detection_config,    \* WindowService.detection_config
    target_window,       \* WindowService.target_window: Option<WindowInfo>
    last_window,         \* last_window of the running detection_loop
    detection_running,   \* WindowService.detection_running
    detection_thread,    \* WindowService.detection_thread is Some
    event_queue,         \* the WindowEvents on the channel, not yet received
    callbacks,           \* WindowService.callbacks: Vec<WindowCallback>
    wcall,               \* the latest WindowService step: what it was given and did
    instant,             \* Instant::now(), in units of 25 ms
    last_capture_time,   \* WindowService.last_capture_time: Option<Instant>
    last_frame,          \* history: the latest bitmap capture_window returned
    cached_screenshot,   \* VisionService.cached_screenshot: Option<Mat>
    cache_time,          \* VisionService.cache_time: Option<Instant>
    cache_duration,      \* VisionService.cache_duration
    ccall,               \* the latest capture call: what it was given and did
    threads,             \* the polling threads spawned by start_detection: where
                         \* each is in detection_loop, and its last_window
    thread_handle,       \* the thread WindowService.detection_thread is the
                         \* JoinHandle of, 0 when it is None
    joining,             \* the thread stop_detection is waiting for in join, 0
                         \* when no stop_detection is in flight
    event_receiver,      \* where the Receiver of the event channel is: held
                         \* by the service, taken by a consumer, or dropped
    current_mode,        \* ModeManager.current_mode
    macro_config,        \* ModeManager.macro_config
    intelligent_config,  \* ModeManager.intelligent_config
    mode_history,        \* ModeManager.mode_history, the modes without their Instants
    max_history,         \* ModeManager.max_history
    mcall,               \* the latest ModeManager call: what it was given and did
    app_config,          \* ConfigService.config, the AppConfig behind the RwLock
    config_file,         \* what the file at config_path holds
    auto_save,           \* ConfigService.auto_save
    save_tasks,          \* the tasks save_config_async has spawned, not yet run
    save_writes,         \* the texts of the tasks that have serialized and not written
    kcall,               \* the latest ConfigService call: what it was given and did
    ui,                  \* the threads spawned by the start and stop buttons
    mode_ui              \* the threads spawned by on_mode_changed

\* the variables of the StateManager and of the WindowService
svars == <<state, observers, chan, receivers, persistence_config, auto_save_handle,
           auto_save_tasks, file, now, pc, lastCall, prevCall, published, tasks,
           reader>>
wvars == <<desktop, detection_config, target_window, last_window, detection_running,
           detection_thread, event_queue, callbacks, wcall>>
\* the variables of the bitmap capture of WindowService and VisionService
cvars == <<instant, last_capture_time, last_frame, cached_screenshot, cache_time,
           cache_duration, ccall>>
\* the variables of the services other than StateManager and WindowService
\* the variables of the polling threads of WindowService taken step by step
tvars == <<threads, thread_handle, joining, event_receiver>>
\* the variables of the ModeManager
mvars == <<current_mode, macro_config, intelligent_config, mode_history, max_history,
           mcall>>
\* the variables of the ConfigService
kvars == <<app_config, config_file, auto_save, save_tasks, save_writes, kcall>>
\* the variables of the handler threads of MainApp
uvars == <<ui, mode_ui>>
ovars == <<cvars, tvars, mvars, kvars, uvars>>
vars == <<svars, wvars, ovars>>

\* at most MaxTasks auto-save tasks are spawned in a run
MaxTasks == 2
\* the auto-save tasks 1..MaxWriters get to run their loop in a run
MaxWriters == 1

\* record of a StateManager call: pre is the AppState when it was called,
\* events the StateChangeEvents it handed to the channel, calls the observer
\* callbacks it made, both in order
Call(op, arg, result, pre, events, calls) ==
    [op |-> op, arg |-> arg, result |-> result, pre |-> pre,
     events |-> events, calls |-> calls]

NoCall == Call("none", "none", "none", AppState_new(0), <<>>, <<>>)

\* what prevCall becomes when a new call begins after the call c
Before(c) == IF c.op = "start_core" /\ c.result = "Ok" THEN c ELSE NoCall

PersistenceConfigs ==
    {None} \cup {Some([enabled |-> e, auto_save_interval |-> i]) :
                    e \in BOOLEAN, i \in {0, 1}}

\* an auto-save task: status is where its loop stands ("none": not spawned or
\* gone, "waiting": at interval_timer.tick().await, "locking": at
\* self.state.read().await, "saving": fs::write is called and its blocking
\* operation has not opened the file yet, "opened": the file is opened and
\* truncated, the text not yet written); alive is FALSE once the task is
\* aborted; handle is whether StateManager.auto_save_handle refers to it;
\* content is the text its save_state serialized; logged is what the loop
\* logged about the save_state of its latest iteration ("saved", "failed",
\* "none" until it returns)
TaskIds == 1..MaxTasks
NoTask == [status |-> "none", alive |-> FALSE, handle |-> FALSE, content |-> None,
           logged |-> "none"]

\* an auto-save task holds the read guard of the AppState from its
\* self.state.read().await to the end of its save_state
ReadHeld == \E i \in TaskIds : tasks[i].alive /\ tasks[i].status \in {"saving", "opened"}

\* a get_state call of another task: status "none", "blocked" (at
\* self.state.read().await) or "returned"; during is the position of the
\* transition call when get_state was called, waited whether it had to wait
\* for the lock, saw the AppState it returned
NoRead == [status |-> "none", during |-> "idle", waited |-> FALSE, saw |-> None]

\* StateManager::new / StateManager::with_persistence
InitManager ==
    /\ now = 0
    /\ state = AppState_new(0)
    /\ observers = <<>>
    /\ chan = EmptyChannel
    /\ receivers = [s \in SubscriberIds |-> NoReceiver]
    /\ persistence_config \in PersistenceConfigs
    /\ auto_save_handle = FALSE
    /\ auto_save_tasks = 0
    /\ file = None
    /\ pc = "idle"
    /\ lastCall = Call("new", "none", "Ok", AppState_new(0), <<>>, <<>>)
    /\ prevCall = NoCall
    /\ published = <<>>
    /\ tasks = [i \in TaskIds |-> NoTask]
    /\ reader = NoRead

NotifyObservers_Reversed(obs, kind, old, new, held, panicAt) ==
    [i \in 1..(IF panicAt = 0 THEN Len(obs) ELSE panicAt) |->
        [idx |-> Len(obs) - i + 1, obs |-> obs[Len(obs) - i + 1], kind |-> kind,
         old |-> old, new |-> new, held |-> held]]

\* `for observer in &self.observers { observer.on_..._changed(old, new) }`:
\* the observers are called in list order; held is the value the AppState
\* holds while they are called. When the observer at panicAt panics the loop
\* is left there (panicAt = 0: no observer panics)
NotifyObservers(obs, kind, old, new, held, panicAt) ==
    [i \in 1..(IF panicAt = 0 THEN Len(obs) ELSE panicAt) |->
        [idx |-> i, obs |-> obs[i], kind |-> kind, old |-> old, new |-> new, held |-> held]]

\* whether the channel has room for n more events within the bound of the model
Room(n) == rx_cnt(receivers) = 0 \/ Len(published) + n <= MaxPublished

\* the channel and the history after `let _ = self.event_sender.send(ev)`
Sent(ev) == BroadcastSend(chan, receivers, ev)
Published(ev) == IF Sent(ev).result = "Ok" THEN Append(published, ev) ELSE published

\* ------------------------------------------------------------------------
\* StateManager::start_core
\* ------------------------------------------------------------------------
StartCoreRejected_Stamps ==
    /\ pc = "idle"
    /\ ~ReadHeld
    /\ ~can_start_core(state)
    /\ state' = update_program_state(state, state.program_state, now)
    /\ lastCall' = Call("start_core", "none", "InvalidTransition", state, <<>>, <<>>)
    /\ prevCall' = Before(lastCall)
    /\ UNCHANGED <<observers, chan, receivers, persistence_config,
                   auto_save_handle, auto_save_tasks, file, now, pc, published>>
    /\ UNCHANGED <<tasks, reader, wvars, ovars>>

\* the early return: can_start_core() is false
StartCoreRejected ==
    /\ pc = "idle"
    /\ ~ReadHeld
    /\ ~can_start_core(state)
    /\ lastCall' = Call("start_core", "none", "InvalidTransition", state, <<>>, <<>>)
    /\ prevCall' = Before(lastCall)
    /\ UNCHANGED <<state, observers, chan, receivers, persistence_config,
                   auto_save_handle, auto_save_tasks, file, now, pc, published>>
    /\ UNCHANGED <<tasks, reader, wvars, ovars>>

StartCoreBegin_NotifyBeforeWrite ==
    /\ pc = "idle"
    /\ ~ReadHeld
    /\ can_start_core(state)
    /\ Room(2)
    /\ \E panicAt \in 0..Len(observers) :
        LET old_state == state.program_state
            s1 == update_program_state(state, "Starting", now)
            event == ProgramStateChanged(old_state, "Starting", now)
            calls == NotifyObservers(observers, "program", old_state, "Starting",
                                     state.program_state, panicAt)
        IN  /\ state' = s1
            /\ chan' = Sent(event).chan
            /\ published' = Published(event)
            /\ lastCall' = Call("start_core", "none",
                                IF panicAt = 0 THEN "Pending" ELSE "Panic",
                                state, <<event>>, calls)
            /\ pc' = IF panicAt = 0 THEN "starting" ELSE "idle"
    /\ prevCall' = Before(lastCall)
    /\ UNCHANGED <<observers, receivers, persistence_config, auto_save_handle,
                   auto_save_tasks, file, now>>
    /\ UNCHANGED <<tasks, reader, wvars, ovars>>

\* lines 121-150: write Starting, send the event, notify the observers, then
\* sleep with the write guard held
StartCoreBegin ==
    /\ pc = "idle"
    /\ ~ReadHeld
    /\ can_start_core(state)
    /\ Room(2)
    /\ \E panicAt \in 0..Len(observers) :
        LET old_state == state.program_state
            s1 == update_program_state(state, "Starting", now)
            event == ProgramStateChanged(old_state, "Starting", now)
            calls == NotifyObservers(observers, "program", old_state, "Starting",
                                     s1.program_state, panicAt)
        IN  /\ state' = s1
            /\ chan' = Sent(event).chan
            /\ published' = Published(event)
            /\ lastCall' = Call("start_core", "none",
                                IF panicAt = 0 THEN "Pending" ELSE "Panic",
                                state, <<event>>, calls)
            /\ pc' = IF panicAt = 0 THEN "starting" ELSE "idle"
    /\ prevCall' = Before(lastCall)
    /\ UNCHANGED <<observers, receivers, persistence_config, auto_save_handle,
                   auto_save_tasks, file, now>>
    /\ UNCHANGED <<tasks, reader, wvars, ovars>>

StartCoreFinish_StaleOld ==
    /\ pc = "starting"
    /\ \E panicAt \in 0..Len(observers) :
        LET old_state == lastCall.pre.program_state
            s2 == update_program_state(state, "Running", now)
            event == ProgramStateChanged(old_state, "Running", now)
            calls == NotifyObservers(observers, "program", old_state, "Running",
                                     s2.program_state, panicAt)
        IN  /\ state' = s2
            /\ chan' = Sent(event).chan
            /\ published' = Published(event)
            /\ lastCall' = [lastCall EXCEPT
                                !.result = IF panicAt = 0 THEN "Ok" ELSE "Panic",
                                !.events = Append(@, event),
                                !.calls = @ \o calls]
    /\ pc' = "idle"
    /\ UNCHANGED <<observers, receivers, persistence_config, auto_save_handle,
                   auto_save_tasks, file, now, prevCall>>
    /\ UNCHANGED <<tasks, reader, wvars, ovars>>

\* lines 152-168: after the sleep write Running, send the event, notify the
\* observers and return Ok
StartCoreFinish ==
    /\ pc = "starting"
    /\ \E panicAt \in 0..Len(observers) :
        LET s2 == update_program_state(state, "Running", now)
            event == ProgramStateChanged("Starting", "Running", now)
            calls == NotifyObservers(observers, "program", "Starting", "Running",
                                     s2.program_state, panicAt)
        IN  /\ state' = s2
            /\ chan' = Sent(event).chan
            /\ published' = Published(event)
            /\ lastCall' = [lastCall EXCEPT
                                !.result = IF panicAt = 0 THEN "Ok" ELSE "Panic",
                                !.events = Append(@, event),
                                !.calls = @ \o calls]
    /\ pc' = "idle"
    /\ UNCHANGED <<observers, receivers, persistence_config, auto_save_handle,
                   auto_save_tasks, file, now, prevCall>>
    /\ UNCHANGED <<tasks, reader, wvars, ovars>>

\* ------------------------------------------------------------------------
\* StateManager::stop_core
\* ------------------------------------------------------------------------
\* the early return: can_stop_core() is false
StopCoreRejected ==
    /\ pc = "idle"
    /\ ~ReadHeld
    /\ ~can_stop_core(state)
    /\ lastCall' = Call("stop_core", "none", "InvalidTransition", state, <<>>, <<>>)
    /\ prevCall' = Before(lastCall)
    /\ UNCHANGED <<state, observers, chan, receivers, persistence_config,
                   auto_save_handle, auto_save_tasks, file, now, pc, published>>
    /\ UNCHANGED <<tasks, reader, wvars, ovars>>

\* lines 173-202: write Stopping, send the event, notify the observers, then
\* sleep with the write guard held
StopCoreBegin ==
    /\ pc = "idle"
    /\ ~ReadHeld
    /\ can_stop_core(state)
    /\ Room(2)
    /\ \E panicAt \in 0..Len(observers) :
        LET old_state == state.program_state
            s1 == update_program_state(state, "Stopping", now)
            event == ProgramStateChanged(old_state, "Stopping", now)
            calls == NotifyObservers(observers, "program", old_state, "Stopping",
                                     s1.program_state, panicAt)
        IN  /\ state' = s1
            /\ chan' = Sent(event).chan
            /\ published' = Published(event)
            /\ lastCall' = Call("stop_core", "none",
                                IF panicAt = 0 THEN "Pending" ELSE "Panic",
                                state, <<event>>, calls)
            /\ pc' = IF panicAt = 0 THEN "stopping" ELSE "idle"
    /\ prevCall' = Before(lastCall)
    /\ UNCHANGED <<observers, receivers, persistence_config, auto_save_handle,
                   auto_save_tasks, file, now>>
    /\ UNCHANGED <<tasks, reader, wvars, ovars>>

StopCoreFinish_NoNotify ==
    /\ pc = "stopping"
    /\ LET s2 == update_program_state(state, "Stopped", now)
           event == ProgramStateChanged("Stopping", "Stopped", now)
       IN  /\ state' = s2
           /\ chan' = Sent(event).chan
           /\ published' = Published(event)
           /\ lastCall' = [lastCall EXCEPT !.result = "Ok", !.events = Append(@, event)]
    /\ pc' = "idle"
    /\ UNCHANGED <<observers, receivers, persistence_config, auto_save_handle,
                   auto_save_tasks, file, now, prevCall>>
    /\ UNCHANGED <<tasks, reader, wvars, ovars>>

\* lines 204-220: after the sleep write Stopped, send the event, notify the
\* observers and return Ok
StopCoreFinish ==
    /\ pc = "stopping"
    /\ \E panicAt \in 0..Len(observers) :
        LET s2 == update_program_state(state, "Stopped", now)
            event == ProgramStateChanged("Stopping", "Stopped", now)
            calls == NotifyObservers(observers, "program", "Stopping", "Stopped",
                                     s2.program_state, panicAt)
        IN  /\ state' = s2
            /\ chan' = Sent(event).chan
            /\ published' = Published(event)
            /\ lastCall' = [lastCall EXCEPT
                                !.result = IF panicAt = 0 THEN "Ok" ELSE "Panic",
                                !.events = Append(@, event),
                                !.calls = @ \o calls]
    /\ pc' = "idle"
    /\ UNCHANGED <<observers, receivers, persistence_config, auto_save_handle,
                   auto_save_tasks, file, now, prevCall>>
    /\ UNCHANGED <<tasks, reader, wvars, ovars>>

\* ------------------------------------------------------------------------
\* StateManager::pause_core
\* ------------------------------------------------------------------------
PauseCore ==
    /\ pc = "idle"
    /\ lastCall' = Call("pause_core", "none",
                        IF state.program_state # "Running"
                        THEN "InvalidTransition" ELSE "Ok",
                        state, <<>>, <<>>)
    /\ prevCall' = Before(lastCall)
    /\ UNCHANGED <<state, observers, chan, receivers, persistence_config,
                   auto_save_handle, auto_save_tasks, file, now, pc, published>>
    /\ UNCHANGED <<tasks, reader, wvars, ovars>>

\* ------------------------------------------------------------------------
\* StateManager::update_game_state
\* ------------------------------------------------------------------------
UpdateGameState(new_state) ==
    /\ pc = "idle"
    /\ ~ReadHeld
    /\ Room(1)
    /\ \E panicAt \in 0..Len(observers) :
        LET old_state == state.game_state
            s1 == update_game_state(state, new_state, now)
            event == GameStateChanged(old_state, new_state, now)
            calls == NotifyObservers(observers, "game", old_state, new_state,
                                     s1.game_state, panicAt)
        IN  IF old_state # new_state
            THEN /\ state' = s1
                 /\ chan' = Sent(event).chan
                 /\ published' = Published(event)
                 /\ lastCall' = Call("update_game_state", new_state,
                                     IF panicAt = 0 THEN "Ok" ELSE "Panic",
                                     state, <<event>>, calls)
            ELSE /\ panicAt = 0
                 /\ lastCall' = Call("update_game_state", new_state, "Ok",
                                     state, <<>>, <<>>)
                 /\ UNCHANGED <<state, chan, published>>
    /\ prevCall' = Before(lastCall)
    /\ UNCHANGED <<observers, receivers, persistence_config, auto_save_handle,
                   auto_save_tasks, file, now, pc>>
    /\ UNCHANGED <<tasks, reader, wvars, ovars>>

\* ------------------------------------------------------------------------
\* Observer registry
\* ------------------------------------------------------------------------
\* StateManager::add_observer
AddObserver(o) ==
    /\ pc = "idle"
    /\ Len(observers) < MaxObservers
    /\ observers' = Append(observers, o)
    /\ lastCall' = Call("add_observer", "none", "Ok", state, <<>>, <<>>)
    /\ prevCall' = Before(lastCall)
    /\ UNCHANGED <<state, chan, receivers, persistence_config, auto_save_handle,
                   auto_save_tasks, file, now, pc, published>>
    /\ UNCHANGED <<tasks, reader, wvars, ovars>>

VecRemove_Pop(v, index) == [i \in 1..(Len(v) - 1) |-> v[i]]

\* Vec::remove(index), index counted from 0
VecRemove(v, index) ==
    [i \in 1..(Len(v) - 1) |-> IF i <= index THEN v[i] ELSE v[i + 1]]

\* StateManager::remove_observer
RemoveObserver(observer_id) ==
    /\ pc = "idle"
    /\ IF observer_id < Len(observers)
       THEN /\ observers' = VecRemove(observers, observer_id)
            /\ lastCall' = Call("remove_observer", "none", "true", state, <<>>, <<>>)
       ELSE /\ observers' = observers
            /\ lastCall' = Call("remove_observer", "none", "false", state, <<>>, <<>>)
    /\ prevCall' = Before(lastCall)
    /\ UNCHANGED <<state, chan, receivers, persistence_config, auto_save_handle,
                   auto_save_tasks, file, now, pc, published>>
    /\ UNCHANGED <<tasks, reader, wvars, ovars>>

\* ------------------------------------------------------------------------
\* Event bus
\* ------------------------------------------------------------------------
\* StateManager::subscribe_events: the new receiver starts at the tail
SubscribeEvents(s) ==
    /\ pc = "idle"
    /\ ~receivers[s].active
    /\ receivers' = [receivers EXCEPT ![s] =
                        [active |-> TRUE, start |-> chan.tail + 1,
                         next |-> chan.tail + 1, got |-> <<>>]]
    /\ lastCall' = Call("subscribe_events", "none", "Ok", state, <<>>, <<>>)
    /\ prevCall' = Before(lastCall)
    /\ UNCHANGED <<state, observers, chan, persistence_config, auto_save_handle,
                   auto_save_tasks, file, now, pc, published>>
    /\ UNCHANGED <<tasks, reader, wvars, ovars>>

\* event_receiver.recv().await of a subscriber, when it does not have to wait
Recv(s) ==
    /\ receivers[s].active
    /\ receivers[s].next <= chan.tail
    /\ LET r == BroadcastRecv(chan, receivers[s].next)
       IN  receivers' = [receivers EXCEPT ![s].next = r.next,
                                          ![s].got = Append(@, r.item)]
    /\ UNCHANGED <<state, observers, chan, persistence_config, auto_save_handle,
                   auto_save_tasks, file, now, pc, lastCall, prevCall, published>>
    /\ UNCHANGED <<tasks, reader, wvars, ovars>>

\* ------------------------------------------------------------------------
\* Persistence
\* ------------------------------------------------------------------------
persistence_enabled ==
    is_some(persistence_config) /\ unwrap(persistence_config).enabled

\* StateManager::save_state awaited by its caller with nothing in between:
\* the file after the call; io_ok is whether create_dir_all and write succeed
save_state(s, f, io_ok) ==
    IF is_some(persistence_config) /\ io_ok THEN Some(to_json(s)) ELSE f

\* whether load_state gets an AppState out of the file f
loads(f, io_ok) == io_ok /\ parses(unwrap(f))

\* StateManager::load_state: the AppState after the call; io_ok is whether
\* read_to_string succeeds
load_state(s, f, io_ok) ==
    IF is_some(persistence_config) /\ is_some(f) /\ loads(f, io_ok)
    THEN from_json(unwrap(f)) ELSE s

\* the task the next start_auto_save spawns: the first unused slot
FreeTask == CHOOSE i \in TaskIds :
                /\ tasks[i].status = "none"
                /\ \A j \in TaskIds : tasks[j].status = "none" => i <= j

\* tokio::spawn in start_auto_save and `self.auto_save_handle = Some(handle)`:
\* the handle of an earlier task is overwritten, the task itself goes on
Spawned(ts) ==
    [i \in TaskIds |->
        IF i = FreeTask
        THEN [status |-> "waiting", alive |-> TRUE, handle |-> TRUE,
              content |-> None, logged |-> "none"]
        ELSE [ts[i] EXCEPT !.handle = FALSE]]

\* JoinHandle::abort of the task the handle refers to: the task is dropped
\* at the await it is suspended at; a blocking file operation it has
\* started is not cancelled and goes on without the task
Aborted(ts) ==
    [i \in TaskIds |->
        IF ~ts[i].handle THEN ts[i]
        ELSE IF ts[i].status \in {"saving", "opened"}
             THEN [ts[i] EXCEPT !.alive = FALSE, !.handle = FALSE]
             ELSE NoTask]

\* StateManager::initialize: load_state, then start_auto_save unless
\* load_state failed
Initialize ==
    /\ pc = "idle"
    /\ \E io_ok \in BOOLEAN :
        LET loaded == persistence_enabled /\ (is_some(file) => loads(file, io_ok))
            spawns == loaded /\ unwrap(persistence_config).auto_save_interval > 0
        IN  /\ persistence_enabled \/ io_ok
            /\ is_some(file) \/ io_ok
            /\ (persistence_enabled /\ is_some(file) /\ loads(file, io_ok)) => ~ReadHeld
            /\ spawns => /\ auto_save_tasks < MaxTasks
                         /\ \E i \in TaskIds : tasks[i].status = "none"
            /\ state' = IF persistence_enabled THEN load_state(state, file, io_ok)
                        ELSE state
            /\ auto_save_tasks' = IF spawns THEN auto_save_tasks + 1 ELSE auto_save_tasks
            /\ auto_save_handle' = IF spawns THEN TRUE ELSE auto_save_handle
            /\ tasks' = IF spawns THEN Spawned(tasks) ELSE tasks
            /\ lastCall' = Call("initialize", "none",
                                IF persistence_enabled /\ ~loaded
                                THEN "PersistenceError" ELSE "Ok",
                                state, <<>>, <<>>)
    /\ prevCall' = Before(lastCall)
    /\ UNCHANGED <<observers, chan, receivers, persistence_config, file, now, pc,
                   published>>
    /\ UNCHANGED <<reader, wvars, ovars>>

Shutdown_Stops ==
    /\ pc = "idle"
    /\ \E io_ok \in BOOLEAN :
        /\ persistence_enabled \/ io_ok
        /\ auto_save_tasks' = IF auto_save_handle THEN auto_save_tasks - 1
                              ELSE auto_save_tasks
        /\ auto_save_handle' = FALSE
        /\ tasks' = Aborted(tasks)
        /\ state' = update_program_state(state, "Stopped", now)
        /\ file' = IF persistence_enabled THEN save_state(state', file, io_ok) ELSE file
        /\ lastCall' = Call("shutdown", "none",
                            IF io_ok THEN "Ok" ELSE "PersistenceError",
                            state, <<>>, <<>>)
    /\ prevCall' = Before(lastCall)
    /\ UNCHANGED <<observers, chan, receivers, persistence_config, now, pc,
                   published>>
    /\ UNCHANGED <<reader, wvars, ovars>>

\* StateManager::shutdown: abort the auto-save task, then save the state
Shutdown ==
    /\ pc = "idle"
    /\ \E io_ok \in BOOLEAN :
        /\ persistence_enabled \/ io_ok
        /\ auto_save_tasks' = IF auto_save_handle THEN auto_save_tasks - 1
                              ELSE auto_save_tasks
        /\ auto_save_handle' = FALSE
        /\ tasks' = Aborted(tasks)
        /\ file' = IF persistence_enabled THEN save_state(state, file, io_ok) ELSE file
        /\ lastCall' = Call("shutdown", "none",
                            IF io_ok THEN "Ok" ELSE "PersistenceError",
                            state, <<>>, <<>>)
    /\ prevCall' = Before(lastCall)
    /\ UNCHANGED <<state, observers, chan, receivers, persistence_config, now, pc,
                   published>>
    /\ UNCHANGED <<reader, wvars, ovars>>

\* StateManager::force_save_state
ForceSaveState ==
    /\ pc = "idle"
    /\ \E io_ok \in BOOLEAN :
        /\ persistence_enabled \/ io_ok
        /\ file' = IF persistence_enabled THEN save_state(state, file, io_ok) ELSE file
        /\ lastCall' = Call("force_save_state", "none",
                            IF io_ok THEN "Ok" ELSE "PersistenceError",
                            state, <<>>, <<>>)
    /\ prevCall' = Before(lastCall)
    /\ UNCHANGED <<state, observers, chan, receivers, persistence_config,
                   auto_save_handle, auto_save_tasks, now, pc, published>>
    /\ UNCHANGED <<tasks, reader, wvars, ovars>>

\* one iteration of the loop of the task spawned by start_auto_save with
\* nothing in between: after the tick, save_state through a temporary
\* manager sharing the AppState; the read guard is not granted while a
\* transition holds the write guard
AutoSaveTick ==
    /\ auto_save_tasks > 0
    /\ pc = "idle"
    /\ \E io_ok \in BOOLEAN : file' = save_state(state, file, io_ok)
    /\ UNCHANGED <<state, observers, chan, receivers, persistence_config,
                   auto_save_handle, auto_save_tasks, now, pc, lastCall, prevCall,
                   published>>
    /\ UNCHANGED <<tasks, reader, wvars, ovars>>

\* ------------------------------------------------------------------------
\* The auto-save task step by step (the loop of start_auto_save, lines
\* 395-412, with save_state, lines 358-382, inside it)
\* ------------------------------------------------------------------------
\* the variables an auto-save task never writes
managerVars == <<state, observers, chan, receivers, persistence_config,
                 auto_save_handle, auto_save_tasks, now, pc, lastCall, prevCall,
                 published, reader>>

\* interval_timer.tick().await completes: the task calls save_state, which
\* asks for the read guard
AutoSaveWake(i) ==
    /\ tasks[i].alive
    /\ tasks[i].status = "waiting"
    /\ tasks' = [tasks EXCEPT ![i].status = "locking", ![i].logged = "none"]
    /\ UNCHANGED <<managerVars, file, wvars, ovars>>

\* the text of the first k fields of the text j
Prefix(j, k) == SubSeq(j, 1, k)

\* where a task goes when its save_state has returned: back to
\* interval_timer.tick().await; a blocking operation left behind by an
\* aborted task just ends
AfterSave(t, outcome) ==
    IF t.alive
    THEN [t EXCEPT !.status = "waiting", !.content = None, !.logged = outcome]
    ELSE NoTask

\* self.state.read().await is granted (no transition holds the write guard),
\* create_dir_all, to_string_pretty, and tokio::fs::write is called; when
\* create_dir_all fails save_state returns the error, which the loop logs
AutoSaveLock(i) ==
    /\ tasks[i].alive
    /\ tasks[i].status = "locking"
    /\ pc = "idle"
    /\ \E io_ok \in BOOLEAN :
        tasks' = [tasks EXCEPT ![i] =
                    IF io_ok
                    THEN [@ EXCEPT !.status = "saving", !.content = Some(to_json(state))]
                    ELSE AfterSave(@, "failed")]
    /\ UNCHANGED <<managerVars, file, wvars, ovars>>

AutoSaveOpen_RetriesAtOnce(i) ==
    /\ tasks[i].status = "saving"
    /\ \E io_ok \in BOOLEAN :
        IF io_ok
        THEN /\ file' = Some(<<>>)
             /\ tasks' = [tasks EXCEPT ![i].status = "opened"]
        ELSE /\ file' = file
             /\ tasks' = [tasks EXCEPT ![i] =
                            [AfterSave(@, "failed") EXCEPT !.status = "locking"]]
    /\ UNCHANGED <<managerVars, wvars, ovars>>

\* the blocking operation of tokio::fs::write opens the state file, which
\* creates it or cuts it to length 0 (std::fs::write, File::create)
AutoSaveOpen(i) ==
    /\ tasks[i].status = "saving"
    /\ \E io_ok \in BOOLEAN :
        IF io_ok
        THEN /\ file' = Some(<<>>)
             /\ tasks' = [tasks EXCEPT ![i].status = "opened"]
        ELSE /\ file' = file
             /\ tasks' = [tasks EXCEPT ![i] = AfterSave(@, "failed")]
    /\ UNCHANGED <<managerVars, wvars, ovars>>

\* the blocking operation writes the text (write_all) and save_state
\* returns; a write that fails leaves the part of the text it got to
AutoSaveWrite(i) ==
    /\ tasks[i].status = "opened"
    /\ \E k \in 0..3 :
        LET text == unwrap(tasks[i].content)
        IN  /\ file' = Some(Prefix(text, k))
            /\ tasks' = [tasks EXCEPT ![i] =
                            AfterSave(@, IF k = Len(text) THEN "saved" ELSE "failed")]
    /\ UNCHANGED <<managerVars, wvars, ovars>>

\* ------------------------------------------------------------------------
\* StateManager::get_state called from another task
\* ------------------------------------------------------------------------
\* self.state.read().await: granted at once unless a transition holds the
\* write guard
GetStateCall ==
    /\ reader.status # "blocked"
    /\ reader' = IF pc = "idle"
                 THEN [status |-> "returned", during |-> pc, waited |-> FALSE,
                       saw |-> Some(state)]
                 ELSE [status |-> "blocked", during |-> pc, waited |-> TRUE,
                       saw |-> None]
    /\ UNCHANGED <<state, observers, chan, receivers, persistence_config,
                   auto_save_handle, auto_save_tasks, file, now, pc, lastCall,
                   prevCall, published, tasks, wvars, ovars>>

\* the write guard is released: the read guard is granted and get_state
\* returns the clone of the AppState
GetStateReturn ==
    /\ reader.status = "blocked"
    /\ pc = "idle"
    /\ reader' = [reader EXCEPT !.status = "returned", !.saw = Some(state)]
    /\ UNCHANGED <<state, observers, chan, receivers, persistence_config,
                   auto_save_handle, auto_save_tasks, file, now, pc, lastCall,
                   prevCall, published, tasks, wvars, ovars>>

\* ------------------------------------------------------------------------
\* Environment
\* ------------------------------------------------------------------------
\* the system clock advances
Tick ==
    /\ now < MaxTime
    /\ now' = now + 1
    /\ UNCHANGED <<state, observers, chan, receivers, persistence_config,
                   auto_save_handle, auto_save_tasks, file, pc, lastCall, prevCall,
                   published>>
    /\ UNCHANGED <<tasks, reader, wvars, ovars>>

\* the system clock advances, in a run that lasts longer than a second
SlowTick ==
    /\ now < MaxTime + TicksPerSec
    /\ now' = now + 1
    /\ UNCHANGED <<state, observers, chan, receivers, persistence_config,
                   auto_save_handle, auto_save_tasks, file, pc, lastCall, prevCall,
                   published>>
    /\ UNCHANGED <<tasks, reader, wvars, ovars>>

\* whether a save_state of an auto-save task has its file write under way
SaveInFlight == \E i \in TaskIds : tasks[i].status \in {"saving", "opened"}

\* the process ends and a later run constructs a new manager
\* (StateManager::new / with_persistence) over the same state file
Restart ==
    /\ state' = AppState_new(now)
    /\ observers' = <<>>
    /\ chan' = EmptyChannel
    /\ receivers' = [s \in SubscriberIds |-> NoReceiver]
    /\ auto_save_handle' = FALSE
    /\ auto_save_tasks' = 0
    /\ pc' = "idle"
    /\ lastCall' = Call("new", IF SaveInFlight THEN "crash_in_save" ELSE "none", "Ok",
                        AppState_new(now), <<>>, <<>>)
    /\ prevCall' = NoCall
    /\ published' = <<>>
    /\ tasks' = [i \in TaskIds |-> NoTask]
    /\ reader' = NoRead
    /\ UNCHANGED <<persistence_config, file, now>>
    /\ UNCHANGED <<wvars, ovars>>

\* ------------------------------------------------------------------------
\* models/window.rs and services/window_service.rs
\* ------------------------------------------------------------------------
\* a String is the sequence of its characters
Chars == {"a", "A", "b"}

\* char::to_lowercase
lower(c) == IF c = "A" THEN "a" ELSE c

\* str::to_lowercase
to_lowercase(str) == [k \in 1..Len(str) |-> lower(str[k])]

\* str::contains(&needle)
contains(hay, needle) ==
    \E k \in 0..(Len(hay) - Len(needle)) :
        SubSeq(hay, k + 1, k + Len(needle)) = needle

\* GetWindowTextW(hwnd, title_buffer, title_buffer.len()): copies at most
\* TitleBuf - 1 characters of the window text
GetWindowTextW(text) ==
    IF Len(text) < TitleBuf THEN text ELSE SubSeq(text, 1, TitleBuf - 1)

\* a top-level window of the OS as the Win32 calls of enum_windows_proc see
\* it: process_name is None when get_process_name fails (OpenProcess or
\* GetModuleBaseNameW), rect is None when GetWindowRect fails
OsWindow(hwnd, text, process_name, visible, rect) ==
    [hwnd |-> hwnd, text |-> text, process_id |-> 100 + hwnd,
     process_name |-> process_name, visible |-> visible, rect |-> rect]

RECT(left, top, right, bottom) ==
    [left |-> left, top |-> top, right |-> right, bottom |-> bottom]

\* the OS desktop: the windows in the order EnumWindows reports them, and
\* the handle GetForegroundWindow returns (0: none)
Desktop(windows, foreground) == [windows |-> windows, foreground |-> foreground]

WindowDetectionConfig(title, process_name, visible_only, foreground_only) ==
    [target_window_title |-> title, target_process_name |-> process_name,
     visible_only |-> visible_only, foreground_only |-> foreground_only]

\* the WindowInfo enum_windows_proc builds for the window w
WindowInfoOf(w, title, foreground) ==
    [handle |-> w.hwnd,
     position |-> <<unwrap(w.rect).left, unwrap(w.rect).top>>,
     size |-> <<unwrap(w.rect).right - unwrap(w.rect).left,
                unwrap(w.rect).bottom - unwrap(w.rect).top>>,
     title |-> title,
     process_id |-> w.process_id,
     is_visible |-> w.visible,
     is_foreground |-> (foreground = w.hwnd)]

\* WindowService::enum_windows_proc for one window: Some(info) when it sets
\* found_window and returns 0 (stop), None when it returns 1 (continue)
enum_windows_proc(w, config, foreground) ==
    LET title == GetWindowTextW(w.text)
    IN  IF config.visible_only /\ ~w.visible THEN None
        ELSE IF config.foreground_only /\ foreground # w.hwnd THEN None
        ELSE IF Len(title) > 0
                /\ contains(title, config.target_window_title)
                /\ is_some(w.process_name)
                /\ contains(to_lowercase(unwrap(w.process_name)),
                            to_lowercase(config.target_process_name))
                /\ is_some(w.rect)
             THEN Some(WindowInfoOf(w, title, foreground))
             ELSE None

\* EnumWindows(enum_windows_proc, context) from the window at index k on:
\* the windows are visited in order until the callback returns 0
RECURSIVE EnumWindows(_, _, _)
EnumWindows(d, config, k) ==
    IF k > Len(d.windows) THEN None
    ELSE IF is_some(enum_windows_proc(d.windows[k], config, d.foreground))
         THEN enum_windows_proc(d.windows[k], config, d.foreground)
         ELSE EnumWindows(d, config, k + 1)

find_target_window_Last(config, d) ==
    LET hits == {k \in 1..Len(d.windows) :
                    is_some(enum_windows_proc(d.windows[k], config, d.foreground))}
    IN  IF hits = {} THEN None
        ELSE enum_windows_proc(d.windows[CHOOSE k \in hits : \A j \in hits : j <= k],
                               config, d.foreground)

\* WindowService::find_target_window (cfg(windows))
find_target_window(config, d) == EnumWindows(d, config, 1)

\* WindowEvent
WindowFound(info) == [type |-> "WindowFound", info |-> Some(info)]
WindowUpdated(info) == [type |-> "WindowUpdated", info |-> Some(info)]
WindowLost == [type |-> "WindowLost", info |-> None]

\* record of a WindowService step: found is what find_target_window
\* returned, session and target the last_window of the loop and the
\* target_window before the step, events the WindowEvents it sent on the
\* channel, calls the callback invocations it made, both in order
WCall(op, arg, result, found, session, target, events, calls) ==
    [op |-> op, arg |-> arg, result |-> result, found |-> found,
     session |-> session, target |-> target, events |-> events, calls |-> calls]

\* `for callback in callbacks_guard.iter() { callback(event.clone()) }`
CallCallbacks(cbs, event) ==
    [k \in 1..Len(cbs) |-> [idx |-> k, callback |-> cbs[k], event |-> event]]

\* WindowDetectionConfig::default, with the strings scaled down
DefaultConfig == WindowDetectionConfig(<<"a">>, <<"A">>, TRUE, FALSE)

\* the windows the desktop of the tracker is made of: one window that is
\* moved, resized and retitled, a second window with the same geometry and
\* a hidden one
TrackWindows ==
    { OsWindow(1, <<"a">>, Some(<<"A">>), TRUE, Some(RECT(0, 0, 2, 2))),
      OsWindow(1, <<"a">>, Some(<<"A">>), TRUE, Some(RECT(1, 0, 3, 2))),
      OsWindow(1, <<"a">>, Some(<<"A">>), TRUE, Some(RECT(0, 0, 3, 2))),
      OsWindow(1, <<"a", "b">>, Some(<<"A">>), TRUE, Some(RECT(0, 0, 2, 2))),
      OsWindow(2, <<"a">>, Some(<<"A">>), TRUE, Some(RECT(0, 0, 2, 2))),
      OsWindow(3, <<"a">>, Some(<<"A">>), FALSE, Some(RECT(0, 0, 2, 2))) }

TrackDesktops ==
    {Desktop(<<>>, 0)} \cup {Desktop(<<w>>, 0) : w \in TrackWindows}

\* the kinds of window an enumeration is made of: a window that matches the
\* default configuration, and windows that are hidden, have another title,
\* another process, a process that cannot be opened, a rectangle that cannot
\* be read, no title, and a title whose match lies behind TitleBuf - 1
\* characters
FindWindows ==
    { OsWindow(0, <<"a">>, Some(<<"A">>), TRUE, Some(RECT(0, 0, 2, 2))),
      OsWindow(0, <<"a">>, Some(<<"A">>), FALSE, Some(RECT(0, 0, 2, 2))),
      OsWindow(0, <<"b">>, Some(<<"A">>), TRUE, Some(RECT(0, 0, 2, 2))),
      OsWindow(0, <<"a">>, Some(<<"b">>), TRUE, Some(RECT(0, 0, 2, 2))),
      OsWindow(0, <<"a">>, None, TRUE, Some(RECT(0, 0, 2, 2))),
      OsWindow(0, <<"a">>, Some(<<"a">>), TRUE, None),
      OsWindow(0, <<>>, Some(<<"A">>), TRUE, Some(RECT(0, 0, 2, 2))),
      OsWindow(0, <<"b", "b", "a">>, Some(<<"A">>), TRUE, Some(RECT(0, 0, 2, 2))) }

\* the enumerations of up to MaxWindows such windows, the window at index k
\* having the handle k, with any of them or none in the foreground
FindDesktops ==
    UNION { { Desktop([k \in 1..n |-> [ws[k] EXCEPT !.hwnd = k, !.process_id = 100 + k]],
                      fg) : ws \in [1..n -> FindWindows], fg \in 0..n }
            : n \in 0..MaxWindows }

FindConfigs ==
    { WindowDetectionConfig(t, p, v, f) :
        t \in {<<>>, <<"a">>}, p \in {<<"a">>, <<"A">>}, v \in BOOLEAN, f \in BOOLEAN }

\* WindowService::with_config
InitWindowWith(config) ==
    /\ detection_config = config
    /\ target_window = None
    /\ last_window = None
    /\ detection_running = FALSE
    /\ detection_thread = FALSE
    /\ event_queue = <<>>
    /\ callbacks = <<>>
    /\ wcall = WCall("new", "none", "Ok", None, None, None, <<>>, <<>>)

\* WindowService::new
InitWindow == InitWindowWith(DefaultConfig)

\* WindowService::add_callback; the closures are told apart by a number
\* taken at registration
AddCallback ==
    /\ Len(callbacks) < MaxCallbacks
    /\ callbacks' = Append(callbacks, Len(callbacks) + 1)
    /\ wcall' = WCall("add_callback", "none", "Ok", None, last_window, target_window,
                      <<>>, <<>>)
    /\ UNCHANGED <<desktop, detection_config, target_window, last_window,
                   detection_running, detection_thread, event_queue>>
    /\ UNCHANGED <<svars, ovars>>

\* WindowService::start_detection: nothing when detection is running,
\* otherwise the flag is set and the thread spawned; detection_loop starts
\* with last_window = None
StartDetection ==
    /\ IF detection_running
       THEN UNCHANGED <<detection_running, detection_thread, last_window>>
       ELSE /\ detection_running' = TRUE
            /\ detection_thread' = TRUE
            /\ last_window' = None
    /\ wcall' = WCall("start_detection", "none", "Ok", None, last_window,
                      target_window, <<>>, <<>>)
    /\ UNCHANGED <<desktop, detection_config, target_window, event_queue, callbacks>>
    /\ UNCHANGED <<svars, ovars>>

\* WindowService::stop_detection: clear the flag and join the thread, which
\* leaves its loop at the next check of the flag
StopDetection ==
    /\ detection_running' = FALSE
    /\ detection_thread' = FALSE
    /\ wcall' = WCall("stop_detection", "none", "Ok", None, last_window,
                      target_window, <<>>, <<>>)
    /\ UNCHANGED <<desktop, detection_config, target_window, last_window,
                   event_queue, callbacks>>
    /\ UNCHANGED <<svars, ovars>>

window_changed_NoSize(last, window_info) ==
    IF is_some(last)
    THEN \/ unwrap(last).handle # window_info.handle
         \/ unwrap(last).position # window_info.position
    ELSE TRUE

\* window_changed of detection_loop
window_changed(last, window_info) ==
    IF is_some(last)
    THEN \/ unwrap(last).handle # window_info.handle
         \/ unwrap(last).position # window_info.position
         \/ unwrap(last).size # window_info.size
    ELSE TRUE

\* the event detection_loop makes for a changed window
event_for(last, window_info) ==
    IF last = None THEN WindowFound(window_info) ELSE WindowUpdated(window_info)

\* one iteration of the loop of detection_loop (lines 161-228)
Poll ==
    /\ detection_thread
    /\ detection_running
    /\ Len(event_queue) < MaxQueue
    /\ LET found == find_target_window(detection_config, desktop)
       IN  IF is_some(found)
           THEN LET window_info == unwrap(found)
                    event == event_for(last_window, window_info)
                IN  IF window_changed(last_window, window_info)
                    THEN /\ target_window' = Some(window_info)
                         /\ event_queue' = Append(event_queue, event)
                         /\ last_window' = Some(window_info)
                         /\ wcall' = WCall("poll", "none", "Ok", found, last_window,
                                           target_window, <<event>>,
                                           CallCallbacks(callbacks, event))
                    ELSE /\ wcall' = WCall("poll", "none", "Ok", found, last_window,
                                           target_window, <<>>, <<>>)
                         /\ UNCHANGED <<target_window, event_queue, last_window>>
           ELSE IF is_some(last_window)
                THEN /\ target_window' = None
                     /\ event_queue' = Append(event_queue, WindowLost)
                     /\ last_window' = None
                     /\ wcall' = WCall("poll", "none", "Ok", found, last_window,
                                       target_window, <<WindowLost>>,
                                       CallCallbacks(callbacks, WindowLost))
                ELSE /\ wcall' = WCall("poll", "none", "Ok", found, last_window,
                                       target_window, <<>>, <<>>)
                     /\ UNCHANGED <<target_window, event_queue, last_window>>
    /\ UNCHANGED <<desktop, detection_config, detection_running, detection_thread,
                   callbacks>>
    /\ UNCHANGED <<svars, ovars>>

\* WindowService::refresh_window_list
refresh_window_list ==
    /\ LET found == find_target_window(detection_config, desktop)
       IN  IF is_some(found)
           THEN /\ target_window' = found
                /\ event_queue' = Append(event_queue, WindowFound(unwrap(found)))
                /\ wcall' = WCall("refresh_window_list", "none", "Ok", found,
                                  last_window, target_window,
                                  <<WindowFound(unwrap(found))>>, <<>>)
           ELSE /\ target_window' = None
                /\ event_queue' = event_queue
                /\ wcall' = WCall("refresh_window_list", "none", "Ok", found,
                                  last_window, target_window, <<>>, <<>>)
    /\ UNCHANGED <<desktop, detection_config, last_window, detection_running,
                   detection_thread, callbacks>>
    /\ UNCHANGED <<svars, ovars>>

\* refresh_window_list called while the channel holds fewer than MaxQueue
\* events
RefreshWindowList == Len(event_queue) < MaxQueue /\ refresh_window_list

\* WindowService::refresh_window_info: the tracked window is replaced by
\* what find_target_window returns when the handle is the same; no
\* WindowEvent is sent
RefreshWindowInfo ==
    /\ LET found == find_target_window(detection_config, desktop)
       IN  IF target_window = None
           THEN /\ wcall' = WCall("refresh_window_info", "none", "Ok", None,
                                  last_window, target_window, <<>>, <<>>)
                /\ UNCHANGED target_window
           ELSE IF found = None
           THEN /\ wcall' = WCall("refresh_window_info", "none", "WindowNotFound",
                                  found, last_window, target_window, <<>>, <<>>)
                /\ UNCHANGED target_window
           ELSE IF unwrap(found).handle = unwrap(target_window).handle
           THEN /\ target_window' = found
                /\ wcall' = WCall("refresh_window_info", "none", "Ok", found,
                                  last_window, target_window, <<>>, <<>>)
           ELSE /\ wcall' = WCall("refresh_window_info", "none", "WindowClosed",
                                  found, last_window, target_window, <<>>, <<>>)
                /\ UNCHANGED target_window
    /\ UNCHANGED <<desktop, detection_config, last_window, detection_running,
                   detection_thread, event_queue, callbacks>>
    /\ UNCHANGED <<svars, ovars>>

\* the holder of the Receiver takes the next WindowEvent from the channel
RecvWindowEvent ==
    /\ event_queue # <<>>
    /\ event_queue' = Tail(event_queue)
    /\ UNCHANGED <<desktop, detection_config, target_window, last_window,
                   detection_running, detection_thread, callbacks, wcall>>
    /\ UNCHANGED <<svars, ovars>>

\* the OS desktop changes: windows appear, disappear, move, are resized or
\* retitled
DesktopChangeIn(desktops) ==
    /\ \E d \in desktops : desktop' = d /\ d # desktop
    /\ UNCHANGED <<detection_config, target_window, last_window, detection_running,
                   detection_thread, event_queue, callbacks, wcall>>
    /\ UNCHANGED <<svars, ovars>>

DesktopChange == DesktopChangeIn(TrackDesktops)

\* the desktops the polling threads are run on: no window, the window, and
\* the window moved
ThreadDesktops ==
    { Desktop(<<>>, 0),
      Desktop(<<OsWindow(1, <<"a">>, Some(<<"A">>), TRUE, Some(RECT(0, 0, 2, 2)))>>, 0),
      Desktop(<<OsWindow(1, <<"a">>, Some(<<"A">>), TRUE, Some(RECT(1, 0, 3, 2)))>>, 0) }

\* i32 and u32
I32_MIN == -(2 ^ (IntBits - 1))
I32_MAX == 2 ^ (IntBits - 1) - 1
I32 == I32_MIN..I32_MAX

\* the i32 that has the same bits: wrapping arithmetic, `as i32`
as_i32(x) == ((x - I32_MIN) % (2 ^ IntBits)) + I32_MIN

\* whether the i32 operation with the exact result x overflows
overflows(x) == x < I32_MIN \/ x > I32_MAX

\* what a WindowService query returns: panic is whether the call panics
\* (arithmetic overflow in a build with overflow checks), value the Option
\* it returns otherwise
Returned(value) == [panic |-> FALSE, value |-> value]
Panicked == [panic |-> TRUE, value |-> None]

\* WindowInfo::screen_to_window_coords; overflow_checks is whether the build
\* checks arithmetic overflow (debug) or wraps (release)
screen_to_window_coords(window, screen_x, screen_y, overflow_checks) ==
    LET window_x == screen_x - window.position[1]
        window_y == screen_y - window.position[2]
    IN  IF overflow_checks /\ (overflows(window_x) \/ overflows(window_y))
        THEN Panicked
        ELSE IF /\ as_i32(window_x) >= 0 /\ as_i32(window_x) < as_i32(window.size[1])
                /\ as_i32(window_y) >= 0 /\ as_i32(window_y) < as_i32(window.size[2])
             THEN Returned(Some(<<as_i32(window_x), as_i32(window_y)>>))
             ELSE Returned(None)

\* the windows the coordinate conversions are tried on: at the origin, at
\* a negative and at the largest position, of an ordinary and an empty size
CoordWindows ==
    { [handle |-> 1, position |-> pos, size |-> size, title |-> <<"a">>,
       process_id |-> 101, is_visible |-> TRUE, is_foreground |-> FALSE] :
        pos \in {<<0, 0>>, <<1, -2>>, <<I32_MAX, 0>>},
        size \in {<<2, 3>>, <<0, 1>>} }

\* WindowInfo::window_to_screen_coords: the additions are made in i32 and
\* no bound of the window is looked at
window_to_screen_coords(window, window_x, window_y, overflow_checks) ==
    LET screen_x == window.position[1] + window_x
        screen_y == window.position[2] + window_y
    IN  IF overflow_checks /\ (overflows(screen_x) \/ overflows(screen_y))
        THEN Panicked
        ELSE Returned(Some(<<as_i32(screen_x), as_i32(screen_y)>>))

\* the coordinates the conversions are tried on: the ends of the i32 range
\* and the values around the window edges
CoordPoints == {I32_MIN, -2, -1, 0, 1, 2, 3, I32_MAX}

\* WindowService::screen_to_window_coords
ScreenToWindowCoords(screen_pos, overflow_checks) ==
    /\ wcall' = [WCall("screen_to_window_coords", screen_pos, "Ok", None,
                       last_window, target_window, <<>>, <<>>)
                 EXCEPT !.result =
                    IF is_some(target_window)
                    THEN screen_to_window_coords(unwrap(target_window), screen_pos[1],
                                                 screen_pos[2], overflow_checks)
                    ELSE Returned(None)]
    /\ UNCHANGED <<desktop, detection_config, target_window, last_window,
                   detection_running, detection_thread, event_queue, callbacks>>
    /\ UNCHANGED <<svars, ovars>>

\* WindowService::window_to_screen_coords
WindowToScreenCoords(window_pos, overflow_checks) ==
    /\ wcall' = [WCall("window_to_screen_coords", window_pos, "Ok", None,
                       last_window, target_window, <<>>, <<>>)
                 EXCEPT !.result =
                    IF is_some(target_window)
                    THEN window_to_screen_coords(unwrap(target_window), window_pos[1],
                                                 window_pos[2], overflow_checks)
                    ELSE Returned(None)]
    /\ UNCHANGED <<desktop, detection_config, target_window, last_window,
                   detection_running, detection_thread, event_queue, callbacks>>
    /\ UNCHANGED <<svars, ovars>>

\* ------------------------------------------------------------------------
\* The polling thread of WindowService, step by step: detection_loop checks
\* the flag, polls, sleeps; stop_detection clears the flag and joins
\* ------------------------------------------------------------------------

ThreadIds == 1..MaxThreads

\* a thread that was not spawned, or was joined
NoThread == [pc |-> "none", last_window |-> None]

\* the threads that have not left detection_loop
Alive == {i \in ThreadIds : threads[i].pc \in {"check", "poll", "sleep"}}

\* WindowService::new: no thread, the Receiver kept in event_receiver
InitThreads ==
    /\ threads = [i \in ThreadIds |-> NoThread]
    /\ thread_handle = 0
    /\ joining = 0
    /\ event_receiver = "held"

\* WindowService::start_detection, called while no stop_detection is in
\* flight (both take &mut self)
StartDetectionThread ==
    /\ joining = 0
    /\ IF detection_running
       THEN UNCHANGED <<detection_running, detection_thread, threads, thread_handle>>
       ELSE \E i \in ThreadIds :
               /\ threads[i].pc = "none"
               /\ detection_running' = TRUE
               /\ threads' = [threads EXCEPT ![i] = [pc |-> "check", last_window |-> None]]
               /\ detection_thread' = TRUE
               /\ thread_handle' = i
    /\ wcall' = WCall("start_detection", "none", "Ok", None, last_window,
                      target_window, <<>>, <<>>)
    /\ UNCHANGED <<desktop, detection_config, target_window, last_window, event_queue,
                   callbacks, joining, event_receiver>>
    /\ UNCHANGED <<svars, cvars, mvars, kvars, uvars>>

\* `while Self::is_detection_running(&detection_running)`
ThreadCheck(i) ==
    /\ threads[i].pc = "check"
    /\ threads' = [threads EXCEPT ![i].pc = IF detection_running THEN "poll" ELSE "exited"]
    /\ UNCHANGED <<thread_handle, joining, event_receiver>>
    /\ UNCHANGED <<svars, wvars, cvars, mvars, kvars, uvars>>

\* `let _ = sender.send(event.clone())` on the unbounded channel: the event
\* is queued, or given back in an Err when the Receiver was dropped
send(queue, event) ==
    IF event_receiver = "dropped" THEN queue ELSE Append(queue, event)

can_send_Bounded == Len(event_queue) < MaxQueue \/ event_receiver = "dropped"

\* the channel is made by crossbeam_channel::unbounded(): a send never
\* waits for room
can_send == TRUE

\* the thread i after the callbacks were called for an event: panicAt is the
\* callback that panics and ends the thread before last_window is assigned,
\* 0 when none does
AfterCallbacks(i, panicAt, window) ==
    [threads EXCEPT ![i] = IF panicAt = 0
                            THEN [pc |-> "sleep", last_window |-> window]
                            ELSE [pc |-> "exited", last_window |-> @.last_window]]

\* the callbacks called for an event when callback panicAt panics
CallsUntil(event, panicAt) ==
    IF panicAt = 0 THEN CallCallbacks(callbacks, event)
    ELSE SubSeq(CallCallbacks(callbacks, event), 1, panicAt)

\* one iteration of detection_loop, up to its sleep
ThreadPoll(i) ==
    /\ threads[i].pc = "poll"
    /\ can_send
    /\ LET found == find_target_window(detection_config, desktop)
           last == threads[i].last_window
       IN  IF is_some(found) /\ window_changed(last, unwrap(found))
           THEN \E panicAt \in 0..Len(callbacks) :
                   LET event == event_for(last, unwrap(found))
                   IN  /\ target_window' = found
                       /\ event_queue' = send(event_queue, event)
                       /\ threads' = AfterCallbacks(i, panicAt, found)
                       /\ wcall' = WCall("poll", i, "Ok", found, last, target_window,
                                         <<event>>, CallsUntil(event, panicAt))
           ELSE IF found = None /\ is_some(last)
           THEN \E panicAt \in 0..Len(callbacks) :
                   /\ target_window' = None
                   /\ event_queue' = send(event_queue, WindowLost)
                   /\ threads' = AfterCallbacks(i, panicAt, None)
                   /\ wcall' = WCall("poll", i, "Ok", found, last, target_window,
                                     <<WindowLost>>, CallsUntil(WindowLost, panicAt))
           ELSE /\ threads' = [threads EXCEPT ![i].pc = "sleep"]
                /\ wcall' = WCall("poll", i, "Ok", found, last, target_window, <<>>, <<>>)
                /\ UNCHANGED <<target_window, event_queue>>
    /\ UNCHANGED <<desktop, detection_config, last_window, detection_running,
                   detection_thread, callbacks>>
    /\ UNCHANGED <<thread_handle, joining, event_receiver>>
    /\ UNCHANGED <<svars, cvars, mvars, kvars, uvars>>

\* `thread::sleep(detection_interval)` is over
ThreadWake(i) ==
    /\ threads[i].pc = "sleep"
    /\ threads' = [threads EXCEPT ![i].pc = "check"]
    /\ UNCHANGED <<thread_handle, joining, event_receiver>>
    /\ UNCHANGED <<svars, wvars, cvars, mvars, kvars, uvars>>

\* a step of the polling thread i
ThreadStep(i) == ThreadCheck(i) \/ ThreadPoll(i) \/ ThreadWake(i)

\* WindowService::stop_detection up to its join: the flag is cleared and the
\* JoinHandle taken; without a handle the call returns at once
StopDetectionBegin ==
    /\ joining = 0
    /\ detection_running' = FALSE
    /\ detection_thread' = FALSE
    /\ thread_handle' = 0
    /\ joining' = thread_handle
    /\ wcall' = WCall("stop_detection", thread_handle,
                      IF thread_handle = 0 THEN "Ok" ELSE "joining", None,
                      last_window, target_window, <<>>, <<>>)
    /\ UNCHANGED <<desktop, detection_config, target_window, last_window, event_queue,
                   callbacks, threads, event_receiver>>
    /\ UNCHANGED <<svars, cvars, mvars, kvars, uvars>>

StopDetectionJoin_NoWait ==
    /\ joining # 0
    /\ joining' = 0
    /\ threads' = threads
    /\ wcall' = [wcall EXCEPT !.result = "Ok"]
    /\ UNCHANGED <<desktop, detection_config, target_window, last_window,
                   detection_running, detection_thread, event_queue, callbacks,
                   thread_handle, event_receiver>>
    /\ UNCHANGED <<svars, cvars, mvars, kvars, uvars>>

\* `handle.join()` returns: the thread has left detection_loop (or panicked)
StopDetectionJoin ==
    /\ joining # 0
    /\ threads[joining].pc = "exited"
    /\ joining' = 0
    /\ threads' = [threads EXCEPT ![joining] = NoThread]
    /\ wcall' = [wcall EXCEPT !.result = "Ok"]
    /\ UNCHANGED <<desktop, detection_config, target_window, last_window,
                   detection_running, detection_thread, event_queue, callbacks,
                   thread_handle, event_receiver>>
    /\ UNCHANGED <<svars, cvars, mvars, kvars, uvars>>

\* WindowService::get_event_receiver: the Receiver is handed out once
GetEventReceiver ==
    /\ event_receiver = "held"
    /\ event_receiver' = "taken"
    /\ UNCHANGED <<threads, thread_handle, joining>>
    /\ UNCHANGED <<svars, wvars, cvars, mvars, kvars, uvars>>

\* the consumer drops the Receiver it was handed: what is still queued is
\* dropped with it
DropReceiver ==
    /\ event_receiver = "taken"
    /\ event_receiver' = "dropped"
    /\ event_queue' = <<>>
    /\ UNCHANGED <<desktop, detection_config, target_window, last_window,
                   detection_running, detection_thread, callbacks, wcall>>
    /\ UNCHANGED <<threads, thread_handle, joining>>
    /\ UNCHANGED <<svars, cvars, mvars, kvars, uvars>>

\* ------------------------------------------------------------------------
\* Bitmap capture: WindowService::capture_window and the screenshot cache of
\* VisionService
\* ------------------------------------------------------------------------

\* `Duration::from_millis(50)` of capture_window, in units of 25 ms
CaptureInterval == 2
\* `cache_duration: Duration::from_millis(50)` of VisionService::new
DefaultCacheDuration == 2

\* the bitmap acquired at the instant t by the service by
Frame(by, t) == [by |-> by, at |-> t]

CCall(op, result, buffer, acquired) ==
    [op |-> op, result |-> result, buffer |-> buffer, acquired |-> acquired,
     at |-> instant, last |-> last_capture_time, frame |-> last_frame,
     cached |-> cached_screenshot, cache_time |-> cache_time,
     cache_duration |-> cache_duration]

\* WindowService::new and VisionService::new
InitCapture ==
    /\ instant = 0
    /\ last_capture_time = None
    /\ last_frame = None
    /\ cached_screenshot = None
    /\ cache_time = None
    /\ cache_duration = DefaultCacheDuration
    /\ ccall = [op |-> "new", result |-> "Ok", buffer |-> None, acquired |-> FALSE,
                at |-> 0, last |-> None, frame |-> None, cached |-> None,
                cache_time |-> None, cache_duration |-> DefaultCacheDuration]

\* time passes
Elapse ==
    /\ instant < MaxInstant
    /\ instant' = instant + 1
    /\ UNCHANGED <<last_capture_time, last_frame, cached_screenshot, cache_time,
                   cache_duration, ccall>>
    /\ UNCHANGED <<svars, wvars, tvars, mvars, kvars, uvars>>

throttled_Never == FALSE

\* whether capture_window returns at its throttle check
throttled ==
    is_some(last_capture_time) /\ instant - unwrap(last_capture_time) < CaptureInterval

\* WindowService::capture_window; bitmap_ok is whether
\* capture_window_internal gets the bitmap (never on a platform other than
\* Windows)
CaptureWindow(bitmap_ok) ==
    /\ IF throttled
       THEN /\ ccall' = CCall("capture_window", "CaptureError", None, FALSE)
            /\ UNCHANGED <<last_capture_time, last_frame>>
       ELSE /\ last_capture_time' = Some(instant)
            /\ IF target_window = None
               THEN /\ ccall' = CCall("capture_window", "WindowNotFound", None, FALSE)
                    /\ UNCHANGED last_frame
               ELSE IF bitmap_ok
               THEN /\ ccall' = CCall("capture_window", "Ok",
                                      Some(Frame("window", instant)), TRUE)
                    /\ last_frame' = Some(Frame("window", instant))
               ELSE /\ ccall' = CCall("capture_window", "CaptureError", None, FALSE)
                    /\ UNCHANGED last_frame
    /\ UNCHANGED <<instant, cached_screenshot, cache_time, cache_duration>>
    /\ UNCHANGED <<svars, wvars, tvars, mvars, kvars, uvars>>

\* whether capture_game_screen_cached answers from its cache
cache_valid ==
    /\ is_some(cached_screenshot)
    /\ is_some(cache_time)
    /\ instant - unwrap(cache_time) < cache_duration

\* VisionService::capture_game_screen_cached; image_ok is whether
\* capture_game_screen makes its image (the build has a working OpenCV)
CaptureGameScreenCached(image_ok) ==
    /\ IF cache_valid
       THEN /\ ccall' = CCall("capture_game_screen_cached", "Ok", cached_screenshot,
                              FALSE)
            /\ UNCHANGED <<cached_screenshot, cache_time>>
       ELSE IF image_ok
       THEN /\ cached_screenshot' = Some(Frame("vision", instant))
            /\ cache_time' = Some(instant)
            /\ ccall' = CCall("capture_game_screen_cached", "Ok",
                              Some(Frame("vision", instant)), TRUE)
       ELSE /\ ccall' = CCall("capture_game_screen_cached", "CaptureError", None,
                              FALSE)
            /\ UNCHANGED <<cached_screenshot, cache_time>>
    /\ UNCHANGED <<instant, last_capture_time, last_frame, cache_duration>>
    /\ UNCHANGED <<svars, wvars, tvars, mvars, kvars, uvars>>

\* VisionService::clear_cache
ClearCache ==
    /\ cached_screenshot' = None
    /\ cache_time' = None
    /\ ccall' = CCall("clear_cache", "Ok", None, FALSE)
    /\ UNCHANGED <<instant, last_capture_time, last_frame, cache_duration>>
    /\ UNCHANGED <<svars, wvars, tvars, mvars, kvars, uvars>>

\* the durations the cache is set to: shorter than the default, the default
\* and longer
CacheDurations ==
    {DefaultCacheDuration - 1, DefaultCacheDuration, DefaultCacheDuration + 1}

\* VisionService::set_cache_duration
SetCacheDuration(duration) ==
    /\ cache_duration' = duration
    /\ ccall' = CCall("set_cache_duration", "Ok", None, FALSE)
    /\ UNCHANGED <<instant, last_capture_time, last_frame, cached_screenshot,
                   cache_time>>
    /\ UNCHANGED <<svars, wvars, tvars, mvars, kvars, uvars>>

\* ------------------------------------------------------------------------
\* ModeManager: the operating modes, their configurations, the mode history
\* ------------------------------------------------------------------------

OperationMode == {"Macro", "Intelligent"}

\* the operation names: one that every configuration must bind (the five of
\* AppConfig::get_supported_operations, scaled down to one) and one that no
\* default binds
Operations == {"deploy_operator", "test_operation"}
get_supported_operations == {"deploy_operator"}
\* `required_keys` of MacroModeConfig::validate_config, scaled down likewise
required_keys == {"deploy_operator"}
Keys == {"1", "X"}

\* a HashMap<String, String>: hotkeys[op] is what hotkeys.get(op) returns
DefaultHotkeys ==
    [op \in Operations |-> IF op = "deploy_operator" THEN Some("1") ELSE None]

\* the transparency of OverlaySettings::default
DefaultTransparency == 80
\* the largest transparency OverlaySettings::validate accepts
MaxTransparency == 100

OverlaySettings_default == [enabled |-> TRUE, transparency |-> DefaultTransparency]

MacroModeConfig_default ==
    [hotkeys |-> DefaultHotkeys, overlay_settings |-> OverlaySettings_default,
     battle_detection_enabled |-> TRUE]

IntelligentModeConfig_default ==
    [hotkeys |-> DefaultHotkeys, overlay_settings |-> OverlaySettings_default,
     intelligent_features |-> <<"small_number_selection">>]

\* <MacroModeConfig as ModeConfig>::validate_config: an empty hotkey map and
\* each missing required key are logged with warn!, and the result is Ok(())
MacroModeConfig_validate_config(config) ==
    IF \E key \in required_keys : config.hotkeys[key] = None THEN "Ok" ELSE "Ok"

\* <IntelligentModeConfig as ModeConfig>::validate_config: an empty hotkey
\* map and an empty feature list are logged with warn!, and the result is
\* Ok(())
IntelligentModeConfig_validate_config(config) ==
    IF (\A op \in Operations : config.hotkeys[op] = None)
       \/ config.intelligent_features = <<>>
    THEN "Ok" ELSE "Ok"

\* `match mode { Macro => self.macro_config.validate_config(), .. }` of
\* switch_mode
validate_config(mode, config) ==
    IF mode = "Macro" THEN MacroModeConfig_validate_config(config)
    ELSE IntelligentModeConfig_validate_config(config)

\* OverlaySettings::validate
OverlaySettings_validate(overlay) ==
    IF overlay.transparency > MaxTransparency THEN "Err" ELSE "Ok"

\* MacroModeConfig::validate and IntelligentModeConfig::validate (the
\* feature names are all supported ones)
validate(config) ==
    IF \E op \in get_supported_operations : config.hotkeys[op] = None THEN "Err"
    ELSE OverlaySettings_validate(config.overlay_settings)

\* MacroModeConfig::fix_invalid_values and
\* IntelligentModeConfig::fix_invalid_values
fix_invalid_values(config) ==
    [config EXCEPT
        !.hotkeys = [op \in Operations |->
                        IF op \in get_supported_operations /\ @[op] = None
                        THEN DefaultHotkeys[op] ELSE @[op]],
        !.overlay_settings.transparency =
            IF @ > MaxTransparency THEN MaxTransparency ELSE @]

ModeSwitch_Swapped(from, to) == [type |-> "ModeSwitch", from |-> to, to |-> from]

\* ModeChangeEvent
ModeSwitch(from, to) == [type |-> "ModeSwitch", from |-> from, to |-> to]
ConfigUpdate(mode, config_type) ==
    [type |-> "ConfigUpdate", mode |-> mode, config_type |-> config_type]
HotkeyUpdate(mode, operation, old_hotkey, new_hotkey) ==
    [type |-> "HotkeyUpdate", mode |-> mode, operation |-> operation,
     old_hotkey |-> old_hotkey, new_hotkey |-> new_hotkey]

MCall(op, arg, result, events) ==
    [op |-> op, arg |-> arg, result |-> result, events |-> events]

\* `max_history: 50` of ModeManager::new, scaled down
DefaultMaxHistory == 3

\* ModeManager::new
InitMode ==
    /\ current_mode = "Macro"
    /\ macro_config = MacroModeConfig_default
    /\ intelligent_config = IntelligentModeConfig_default
    /\ mode_history = <<"Macro">>
    /\ max_history = DefaultMaxHistory
    /\ mcall = MCall("new", "none", "Ok", <<>>)

\* the configuration of a mode
config_of(mode) == IF mode = "Macro" THEN macro_config ELSE intelligent_config

add_to_history_KeepsOldest(history, max, mode) ==
    IF Len(history) + 1 > max THEN SubSeq(Append(history, mode), 1, Len(history))
    ELSE Append(history, mode)

\* ModeManager::add_to_history: push, then remove(0) when the length is
\* above max_history
add_to_history(history, max, mode) ==
    IF Len(history) + 1 > max THEN Tail(Append(history, mode))
    ELSE Append(history, mode)

SwitchMode_RecordsSameMode(mode) ==
    /\ IF validate_config(mode, config_of(mode)) # "Ok"
       THEN /\ mcall' = MCall("switch_mode", mode,
                              validate_config(mode, config_of(mode)), <<>>)
            /\ UNCHANGED <<current_mode, mode_history>>
       ELSE /\ current_mode' = mode
            /\ mode_history' = add_to_history(mode_history, max_history, mode)
            /\ mcall' = MCall("switch_mode", mode, "Ok",
                              IF current_mode = mode THEN <<>>
                              ELSE <<ModeSwitch(current_mode, mode)>>)
    /\ UNCHANGED <<macro_config, intelligent_config, max_history>>
    /\ UNCHANGED <<svars, wvars, cvars, tvars, kvars, uvars>>

\* ModeManager::switch_mode
SwitchMode(mode) ==
    /\ IF current_mode = mode
       THEN /\ mcall' = MCall("switch_mode", mode, "Ok", <<>>)
            /\ UNCHANGED <<current_mode, mode_history>>
       ELSE IF validate_config(mode, config_of(mode)) # "Ok"
       THEN /\ mcall' = MCall("switch_mode", mode,
                              validate_config(mode, config_of(mode)), <<>>)
            /\ UNCHANGED <<current_mode, mode_history>>
       ELSE /\ current_mode' = mode
            /\ mode_history' = add_to_history(mode_history, max_history, mode)
            /\ mcall' = MCall("switch_mode", mode, "Ok", <<ModeSwitch(current_mode, mode)>>)
    /\ UNCHANGED <<macro_config, intelligent_config, max_history>>
    /\ UNCHANGED <<svars, wvars, cvars, tvars, kvars, uvars>>

UpdateHotkey_BothModes(operation, hotkey) ==
    /\ macro_config' = [macro_config EXCEPT !.hotkeys[operation] = Some(hotkey)]
    /\ intelligent_config' =
           [intelligent_config EXCEPT !.hotkeys[operation] = Some(hotkey)]
    /\ mcall' = MCall("update_hotkey", <<operation, hotkey>>, "Ok",
                      <<HotkeyUpdate(current_mode, operation,
                                     config_of(current_mode).hotkeys[operation], hotkey)>>)
    /\ UNCHANGED <<current_mode, mode_history, max_history>>
    /\ UNCHANGED <<svars, wvars, cvars, tvars, kvars, uvars>>

\* ModeManager::update_hotkey
UpdateHotkey(operation, hotkey) ==
    /\ IF current_mode = "Macro"
       THEN /\ macro_config' = [macro_config EXCEPT !.hotkeys[operation] = Some(hotkey)]
            /\ UNCHANGED intelligent_config
       ELSE /\ intelligent_config' =
                   [intelligent_config EXCEPT !.hotkeys[operation] = Some(hotkey)]
            /\ UNCHANGED macro_config
    /\ mcall' = MCall("update_hotkey", <<operation, hotkey>>, "Ok",
                      <<HotkeyUpdate(current_mode, operation,
                                     config_of(current_mode).hotkeys[operation], hotkey)>>)
    /\ UNCHANGED <<current_mode, mode_history, max_history>>
    /\ UNCHANGED <<svars, wvars, cvars, tvars, kvars, uvars>>

\* the configuration of mode becomes config
SetConfig(mode, config) ==
    IF mode = "Macro"
    THEN macro_config' = config /\ UNCHANGED intelligent_config
    ELSE intelligent_config' = config /\ UNCHANGED macro_config

ResetToDefaults_KeepsIntelligent ==
    /\ SetConfig("Macro", MacroModeConfig_default)
    /\ current_mode' = "Macro"
    /\ mode_history' = add_to_history(<<>>, max_history, "Macro")
    /\ mcall' = MCall("reset_to_defaults", "none", "Ok",
                      <<ConfigUpdate("Macro", "reset_to_defaults")>>)
    /\ UNCHANGED max_history
    /\ UNCHANGED <<svars, wvars, cvars, tvars, kvars, uvars>>

\* ModeManager::reset_to_defaults
ResetToDefaults ==
    /\ macro_config' = MacroModeConfig_default
    /\ intelligent_config' = IntelligentModeConfig_default
    /\ current_mode' = "Macro"
    /\ mode_history' = add_to_history(<<>>, max_history, "Macro")
    /\ mcall' = MCall("reset_to_defaults", "none", "Ok",
                      <<ConfigUpdate("Macro", "reset_to_defaults")>>)
    /\ UNCHANGED max_history
    /\ UNCHANGED <<svars, wvars, cvars, tvars, kvars, uvars>>

\* ModeManager::set_max_history
SetMaxHistory(max) ==
    /\ max_history' = max
    /\ mode_history' = IF Len(mode_history) > max
                       THEN SubSeq(mode_history, Len(mode_history) - max + 1,
                                   Len(mode_history))
                       ELSE mode_history
    /\ mcall' = MCall("set_max_history", max, "Ok", <<>>)
    /\ UNCHANGED <<current_mode, macro_config, intelligent_config>>
    /\ UNCHANGED <<svars, wvars, cvars, tvars, kvars, uvars>>

\* `get_macro_config_mut().hotkeys.remove(operation)`, and the same on
\* get_intelligent_config_mut(): the caller takes a binding out
RemoveHotkey(mode, operation) ==
    /\ config_of(mode).hotkeys[operation] # None
    /\ SetConfig(mode, [config_of(mode) EXCEPT !.hotkeys[operation] = None])
    /\ mcall' = MCall("remove_hotkey", <<mode, operation>>, "Ok", <<>>)
    /\ UNCHANGED <<current_mode, mode_history, max_history>>
    /\ UNCHANGED <<svars, wvars, cvars, tvars, kvars, uvars>>

\* `get_macro_config_mut().fix_invalid_values()`, and the same on
\* get_intelligent_config_mut(): the caller repairs the configuration
FixInvalidValues(mode) ==
    /\ SetConfig(mode, fix_invalid_values(config_of(mode)))
    /\ mcall' = MCall("fix_invalid_values", mode, "Ok", <<>>)
    /\ UNCHANGED <<current_mode, mode_history, max_history>>
    /\ UNCHANGED <<svars, wvars, cvars, tvars, kvars, uvars>>

\* ------------------------------------------------------------------------
\* ConfigService: the in-memory AppConfig, its updates and its saves
\* ------------------------------------------------------------------------

\* AppConfig::default; global_settings and ui_settings stay at their
\* defaults, which validate, and are left out
AppConfig_default ==
    [mode |-> "Macro", macro_config |-> MacroModeConfig_default,
     intelligent_config |-> IntelligentModeConfig_default]

\* AppConfig::validate
AppConfig_validate(config) ==
    IF validate(config.macro_config) # "Ok" THEN "ValidationError"
    ELSE IF validate(config.intelligent_config) # "Ok" THEN "ValidationError"
    ELSE "Ok"

\* the transparencies an updater sets: the default, the largest valid one
\* and an invalid one (a u8 above 100)
Transparencies == {DefaultTransparency, MaxTransparency, MaxTransparency + 1}

\* the updaters handed to update_config: the closures of update_mode and of
\* update_overlay_opacity, and one that sets the macro transparency alone
Updaters ==
    [kind : {"mode"}, value : OperationMode]
        \cup [kind : {"overlay_opacity", "macro_transparency"}, value : Transparencies]

\* `updater(&mut *config)`
apply(updater, config) ==
    IF updater.kind = "mode" THEN [config EXCEPT !.mode = updater.value]
    ELSE IF updater.kind = "overlay_opacity"
    THEN [config EXCEPT !.macro_config.overlay_settings.transparency = updater.value,
                        !.intelligent_config.overlay_settings.transparency = updater.value]
    ELSE [config EXCEPT !.macro_config.overlay_settings.transparency = updater.value]

KCall(op, arg, result, events) ==
    [op |-> op, arg |-> arg, result |-> result, events |-> events]

\* ConfigService::new
InitConfig ==
    /\ app_config = AppConfig_default
    /\ config_file = None
    /\ auto_save = TRUE
    /\ save_tasks = 0
    /\ save_writes = <<>>
    /\ kcall = KCall("new", "none", "Ok", <<>>)

\* ConfigService::update_config
UpdateConfig(updater) ==
    /\ app_config' = apply(updater, app_config)
    /\ IF AppConfig_validate(app_config') # "Ok"
       THEN /\ kcall' = KCall("update_config", updater, "ValidationError", <<>>)
            /\ UNCHANGED save_tasks
       ELSE /\ save_tasks' = IF auto_save THEN save_tasks + 1 ELSE save_tasks
            /\ kcall' = KCall("update_config", updater, "Ok", <<"Updated">>)
    /\ UNCHANGED <<config_file, auto_save, save_writes>>
    /\ UNCHANGED <<svars, wvars, cvars, tvars, mvars, uvars>>

\* the result, the file and the events of a save of the current configuration
Save(op, write_ok) ==
    IF AppConfig_validate(app_config) # "Ok"
    THEN /\ kcall' = KCall(op, "none", "ValidationError", <<>>)
         /\ UNCHANGED config_file
    ELSE IF ~write_ok
    THEN /\ kcall' = KCall(op, "none", "SaveError", <<"SaveFailed">>)
         /\ UNCHANGED config_file
    ELSE /\ config_file' = Some(app_config)
         /\ kcall' = KCall(op, "none", "Ok", <<"Saved">>)

\* ConfigService::save_config
SaveConfig(write_ok) ==
    /\ Save("save_config", write_ok)
    /\ UNCHANGED <<app_config, auto_save, save_tasks, save_writes>>
    /\ UNCHANGED <<svars, wvars, cvars, tvars, mvars, uvars>>

\* the saves that were spawned and have not ended
SavesRunning == save_tasks + Len(save_writes)

\* a task spawned by ConfigService::save_config_async up to
\* `drop(config_data)`: under the read guard the configuration is validated
\* and serialized; the task ends here when the validation fails
SaveTaskSerialize ==
    /\ save_tasks > 0
    /\ save_tasks' = save_tasks - 1
    /\ IF AppConfig_validate(app_config) # "Ok"
       THEN /\ kcall' = KCall("save_config_async", "none", "ValidationError", <<>>)
            /\ UNCHANGED save_writes
       ELSE /\ save_writes' = Append(save_writes, app_config)
            /\ kcall' = KCall("save_config_async", "none", "Serialized", <<>>)
    /\ UNCHANGED <<app_config, config_file, auto_save>>
    /\ UNCHANGED <<svars, wvars, cvars, tvars, mvars, uvars>>

\* the sequence without its k-th element
Without(seq, k) == SubSeq(seq, 1, k - 1) \o SubSeq(seq, k + 1, Len(seq))

\* `fs::write(&config_path, content)` of a task that has released the read
\* guard: the tasks run on the runtime in any order, each writes the text
\* it serialized
SaveTaskWrite(k, write_ok) ==
    /\ k \in 1..Len(save_writes)
    /\ save_writes' = Without(save_writes, k)
    /\ IF write_ok
       THEN /\ config_file' = Some(save_writes[k])
            /\ kcall' = KCall("save_config_async", "none", "Ok", <<"Saved">>)
       ELSE /\ kcall' = KCall("save_config_async", "none", "SaveError", <<"SaveFailed">>)
            /\ UNCHANGED config_file
    /\ UNCHANGED <<app_config, auto_save, save_tasks>>
    /\ UNCHANGED <<svars, wvars, cvars, tvars, mvars, uvars>>

\* ConfigService::reset_to_default
ResetToDefault(write_ok) ==
    /\ app_config' = AppConfig_default
    /\ IF write_ok
       THEN /\ config_file' = Some(AppConfig_default)
            /\ kcall' = KCall("reset_to_default", "none", "Ok", <<"Saved", "Updated">>)
       ELSE /\ kcall' = KCall("reset_to_default", "none", "SaveError", <<"SaveFailed">>)
            /\ UNCHANGED config_file
    /\ UNCHANGED <<auto_save, save_tasks, save_writes>>
    /\ UNCHANGED <<svars, wvars, cvars, tvars, mvars, uvars>>

\* ConfigService::set_auto_save
SetAutoSave(enabled) ==
    /\ auto_save' = enabled
    /\ kcall' = KCall("set_auto_save", enabled, "Ok", <<>>)
    /\ UNCHANGED <<app_config, config_file, save_tasks, save_writes>>
    /\ UNCHANGED <<svars, wvars, cvars, tvars, mvars, uvars>>

\* ConfigService::get_config_async: a later reader
GetConfig ==
    /\ kcall' = KCall("get_config_async", "none", app_config, <<>>)
    /\ UNCHANGED <<app_config, config_file, auto_save, save_tasks, save_writes>>
    /\ UNCHANGED <<svars, wvars, cvars, tvars, mvars, uvars>>

\* ------------------------------------------------------------------------
\* MainApp: the threads of the button and mode handlers
\* ------------------------------------------------------------------------

\* two presses; each handler runs on a thread of its own
UiThreads == {1, 2}

\* a handler thread of the start or the stop button: status "none" (not
\* spawned), "waiting" (at state_manager.write().await), "holding" (it has
\* the guard of the manager and its call runs) or "done"; could is
\* can_start_core / can_stop_core when the button was pressed, result and
\* emitted what its call returned and how many events it sent
NoUi == [op |-> "none", status |-> "none", could |-> FALSE, result |-> "none", emitted |-> 0]

\* a thread of on_mode_changed: status "none", "spawned" (at
\* mode_manager.write().await), "locked" (it has the guard of the
\* ModeManager), "switched" (switch_mode has returned and the guard is
\* dropped), "updating" (inside config_service.update_mode) or "done"
NoModeUi == [mode |-> "none", status |-> "none"]

\* MainApp::new
InitUi ==
    /\ ui = [t \in UiThreads |-> NoUi]
    /\ mode_ui = [t \in UiThreads |-> NoModeUi]

\* on_start_clicked / on_stop_clicked: std::thread::spawn of the handler
Clicked(t, op) ==
    /\ ui[t].status = "none"
    /\ ui' = [ui EXCEPT ![t] =
                [op |-> op, status |-> "waiting",
                 could |-> IF op = "start" THEN can_start_core(state)
                           ELSE can_stop_core(state),
                 result |-> "none", emitted |-> 0]]
    /\ UNCHANGED <<svars, wvars, cvars, tvars, mvars, kvars, mode_ui>>

WriteStateManager_Shared(t) ==
    /\ ui[t].status = "waiting"
    /\ pc = "idle"
    /\ ui' = [ui EXCEPT ![t].status = "holding"]
    /\ lastCall' = Call("write", t, "Acquired", state, <<>>, <<>>)
    /\ prevCall' = Before(lastCall)
    /\ UNCHANGED <<state, observers, chan, receivers, persistence_config,
                   auto_save_handle, auto_save_tasks, file, now, pc, published,
                   tasks, reader>>
    /\ UNCHANGED <<wvars, cvars, tvars, mvars, kvars, mode_ui>>

\* `state_manager.write().await` of a handler returns: no other thread has
\* the guard of the Arc<RwLock<StateManager>>
WriteStateManager(t) ==
    /\ ui[t].status = "waiting"
    /\ \A u \in UiThreads : ui[u].status # "holding"
    /\ pc = "idle"
    /\ ui' = [ui EXCEPT ![t].status = "holding"]
    /\ lastCall' = Call("write", t, "Acquired", state, <<>>, <<>>)
    /\ prevCall' = Before(lastCall)
    /\ UNCHANGED <<state, observers, chan, receivers, persistence_config,
                   auto_save_handle, auto_save_tasks, file, now, pc, published,
                   tasks, reader>>
    /\ UNCHANGED <<wvars, cvars, tvars, mvars, kvars, mode_ui>>

\* the thread whose handler has the guard is about to call op
Calls(op) ==
    \E t \in UiThreads :
        ui[t].status = "holding" /\ ui[t].op = op /\ lastCall.op = "write"

\* the call of the handler has returned: the guard is dropped at the end of
\* the statement and the thread ends
HandlerReturns(t) ==
    /\ ui[t].status = "holding"
    /\ lastCall.op \in {"start_core", "stop_core"}
    /\ pc = "idle"
    /\ ui' = [ui EXCEPT ![t].status = "done", ![t].result = lastCall.result,
                        ![t].emitted = Len(lastCall.events)]
    /\ UNCHANGED <<svars, wvars, cvars, tvars, mvars, kvars, mode_ui>>

\* on_mode_changed(mode_idx): std::thread::spawn of the handler
ModeChanged(t, mode) ==
    /\ mode_ui[t].status = "none"
    /\ mode_ui' = [mode_ui EXCEPT ![t] = [mode |-> mode, status |-> "spawned"]]
    /\ UNCHANGED <<svars, wvars, cvars, tvars, mvars, kvars, ui>>

\* `mode_manager.write().await` of the handler returns
WriteModeManager(t) ==
    /\ mode_ui[t].status = "spawned"
    /\ \A u \in UiThreads : mode_ui[u].status # "locked"
    /\ mode_ui' = [mode_ui EXCEPT ![t].status = "locked"]
    /\ mcall' = MCall("write", t, "Acquired", <<>>)
    /\ UNCHANGED <<current_mode, macro_config, intelligent_config, mode_history,
                   max_history>>
    /\ UNCHANGED <<svars, wvars, cvars, tvars, kvars, ui>>

\* the thread that has the guard of the ModeManager is about to call
\* switch_mode(mode)
Switches(mode) ==
    \E t \in UiThreads :
        mode_ui[t].status = "locked" /\ mode_ui[t].mode = mode /\ mcall.op = "write"

\* switch_mode has returned: the guard is dropped at the end of the `if let`
Switched(t) ==
    /\ mode_ui[t].status = "locked"
    /\ mcall.op = "switch_mode"
    /\ mode_ui' = [mode_ui EXCEPT ![t].status = "switched"]
    /\ UNCHANGED <<svars, wvars, cvars, tvars, mvars, kvars, ui>>

\* the handler calls config_service.update_mode(mode), which calls
\* update_config and waits for the write guard of the configuration
UpdateMode(t) ==
    /\ mode_ui[t].status = "switched"
    /\ \A u \in UiThreads : mode_ui[u].status # "updating"
    /\ mode_ui' = [mode_ui EXCEPT ![t].status = "updating"]
    /\ kcall' = KCall("update_mode", mode_ui[t].mode, "Called", <<>>)
    /\ UNCHANGED <<app_config, config_file, auto_save, save_tasks, save_writes>>
    /\ UNCHANGED <<svars, wvars, cvars, tvars, mvars, ui>>

\* the thread inside update_mode(mode) is about to run update_config
Updates(updater) ==
    /\ updater.kind = "mode"
    /\ kcall.op = "update_mode"
    /\ kcall.arg = updater.value

\* no handler thread is inside update_mode
NoUpdateMode == \A t \in UiThreads : mode_ui[t].status # "updating"

\* update_mode has returned and the thread ends
ModeHandlerReturns(t) ==
    /\ mode_ui[t].status = "updating"
    /\ kcall.op = "update_config"
    /\ mode_ui' = [mode_ui EXCEPT ![t].status = "done"]
    /\ UNCHANGED <<svars, wvars, cvars, tvars, mvars, kvars, ui>>

\* ------------------------------------------------------------------------
\* Specifications
\* ------------------------------------------------------------------------

\* the services other than StateManager and WindowService after construction
InitOther == InitCapture /\ InitThreads /\ InitMode /\ InitConfig /\ InitUi

\* the services after construction, on an empty desktop
Init ==
    /\ InitManager
    /\ InitWindow
    /\ desktop = Desktop(<<>>, 0)
    /\ InitOther

\* StateManager::new: a manager without persistence
InitNew ==
    /\ Init
    /\ persistence_config = None

\* the state machine and its observers, under a running clock
Next ==
    \/ StartCoreRejected
    \/ StartCoreBegin
    \/ StartCoreFinish
    \/ StopCoreRejected
    \/ StopCoreBegin
    \/ StopCoreFinish
    \/ PauseCore
    \/ \E g \in GameState : UpdateGameState(g)
    \/ \E o \in ObserverIds : AddObserver(o)
    \/ \E i \in 0..MaxObservers : RemoveObserver(i)
    \/ Tick

Spec == InitNew /\ [][Next]_vars

\* every operation of the manager, with and without persistence, over
\* successive runs of the program
NextOps ==
    \/ StartCoreRejected
    \/ StartCoreBegin
    \/ StartCoreFinish
    \/ StopCoreRejected
    \/ StopCoreBegin
    \/ StopCoreFinish
    \/ PauseCore
    \/ \E g \in GameState : UpdateGameState(g)
    \/ \E o \in ObserverIds : AddObserver(o)
    \/ \E i \in 0..MaxObservers : RemoveObserver(i)
    \/ Initialize
    \/ Shutdown
    \/ ForceSaveState
    \/ AutoSaveTick
    \/ Restart

SpecOps == Init /\ [][NextOps]_vars

\* the state machine and its event bus with the subscribers
NextBus ==
    \/ StartCoreBegin
    \/ StartCoreFinish
    \/ StopCoreBegin
    \/ StopCoreFinish
    \/ \E g \in GameState : UpdateGameState(g)
    \/ \E s \in SubscriberIds : SubscribeEvents(s)
    \/ \E s \in SubscriberIds : Recv(s)

SpecBus == InitNew /\ [][NextBus]_vars

\* the state machine and a reader of the AppState on another task
NextRead ==
    \/ StartCoreBegin
    \/ StartCoreFinish
    \/ StopCoreBegin
    \/ StopCoreFinish
    \/ \E g \in GameState : UpdateGameState(g)
    \/ GetStateCall
    \/ GetStateReturn
    \/ Tick

SpecRead == InitNew /\ [][NextRead]_vars

\* the state file under a running clock, over successive runs of the program
NextPersist ==
    \/ StartCoreBegin
    \/ StartCoreFinish
    \/ StopCoreBegin
    \/ StopCoreFinish
    \/ \E g \in GameState : UpdateGameState(g)
    \/ Initialize
    \/ Shutdown
    \/ ForceSaveState
    \/ AutoSaveTick
    \/ Restart
    \/ SlowTick

SpecPersist == Init /\ [][NextPersist]_vars

\* the auto-save tasks step by step next to the calls of the manager, and
\* the end of the process at any moment; the timers of the tasks 1..MaxWriters
\* fire in the run
NextSave ==
    \/ StartCoreBegin
    \/ StartCoreFinish
    \/ \E g \in GameState : UpdateGameState(g)
    \/ Initialize
    \/ Shutdown
    \/ \E i \in 1..MaxWriters : AutoSaveWake(i)
    \/ \E i \in 1..MaxWriters : AutoSaveLock(i)
    \/ \E i \in 1..MaxWriters : AutoSaveOpen(i)
    \/ \E i \in 1..MaxWriters : AutoSaveWrite(i)
    \/ Restart

SpecSave == Init /\ [][NextSave]_vars

\* the window tracker: the polling thread, the calls of the service and the
\* consumer of its channel, on a desktop that changes
NextWin ==
    \/ AddCallback
    \/ StartDetection
    \/ StopDetection
    \/ Poll
    \/ RefreshWindowList
    \/ RecvWindowEvent
    \/ DesktopChange

SpecWin == InitNew /\ [][NextWin]_vars

\* find_target_window on every enumeration and configuration of the bounds
InitFind ==
    /\ InitManager
    /\ persistence_config = None
    /\ \E config \in FindConfigs : InitWindowWith(config)
    /\ desktop \in FindDesktops
    /\ InitOther

NextFind ==
    \/ RefreshWindowList
    \/ RecvWindowEvent

SpecFind == InitFind /\ [][NextFind]_vars

\* the tracker has polled with one of the windows, or none, on the desktop
InitTracked(windows) ==
    /\ InitManager
    /\ persistence_config = None
    /\ desktop = Desktop(<<>>, 0)
    /\ detection_config = DefaultConfig
    /\ target_window \in {Some(w) : w \in windows} \cup {None}
    /\ last_window = target_window
    /\ detection_running = TRUE
    /\ detection_thread = TRUE
    /\ event_queue = <<>>
    /\ callbacks = <<>>
    /\ wcall = WCall("poll", "none", "Ok", target_window, None, None, <<>>, <<>>)
    /\ InitOther

\* the coordinate conversions on every tracked window and point of the
\* bounds
InitCoords == InitTracked(CoordWindows)

NextCoords ==
    \E p \in CoordPoints \X CoordPoints, c \in BOOLEAN :
        \/ ScreenToWindowCoords(p, c)
        \/ WindowToScreenCoords(p, c)

SpecCoords == InitCoords /\ [][NextCoords]_vars

\* the polling thread step by step, on a changing desktop, with a consumer
\* that may take the Receiver, read from it or drop it; the desktop changes
\* and the detection is started only while at most MaxQueue events are
\* unread
NextThread ==
    \/ Len(event_queue) <= MaxQueue /\ StartDetectionThread
    \/ StopDetectionBegin
    \/ StopDetectionJoin
    \/ \E i \in ThreadIds : ThreadStep(i)
    \/ Len(event_queue) <= MaxQueue /\ DesktopChangeIn(ThreadDesktops)
    \/ AddCallback
    \/ GetEventReceiver
    \/ event_receiver = "taken" /\ RecvWindowEvent
    \/ DropReceiver

\* the scheduler lets every polling thread run and join return once its
\* thread has exited; nothing obliges the consumer to read
SpecThread ==
    /\ InitNew
    /\ [][NextThread]_vars
    /\ \A i \in ThreadIds : WF_vars(ThreadStep(i))
    /\ WF_vars(StopDetectionJoin)

\* the polling threads together with the calls of a holder of the
\* WindowService; the Receiver stays in the service, so the channel holds
\* every WindowEvent sent so far, the oldest first
StreamOpen == Len(event_queue) < MaxStream

NextSession ==
    \/ StreamOpen /\ StartDetectionThread
    \/ StopDetectionBegin
    \/ StopDetectionJoin
    \/ \E i \in ThreadIds : ThreadStep(i)
    \/ StreamOpen /\ DesktopChangeIn(ThreadDesktops)
    \/ StreamOpen /\ joining = 0 /\ refresh_window_list
    \/ StreamOpen /\ joining = 0 /\ RefreshWindowInfo

\* the scheduler lets every polling thread run and join return once its
\* thread has exited
SpecSession ==
    /\ InitNew
    /\ [][NextSession]_vars
    /\ \A i \in ThreadIds : WF_vars(ThreadStep(i))
    /\ WF_vars(StopDetectionJoin)

\* every ModeManager operation and the changes a caller makes through
\* get_macro_config_mut and get_intelligent_config_mut
NextMode ==
    \/ \E mode \in OperationMode : SwitchMode(mode)
    \/ \E operation \in Operations, hotkey \in Keys : UpdateHotkey(operation, hotkey)
    \/ ResetToDefaults
    \/ \E max \in 0..MaxSetHistory : SetMaxHistory(max)
    \/ \E mode \in OperationMode, operation \in Operations : RemoveHotkey(mode, operation)
    \/ \E mode \in OperationMode : FixInvalidValues(mode)

SpecMode == InitNew /\ [][NextMode]_vars

\* every ConfigService operation on the configuration, and the spawned saves
NextConfig ==
    \/ \E updater \in Updaters : SavesRunning < MaxSaveTasks /\ UpdateConfig(updater)
    \/ \E write_ok \in BOOLEAN : SaveConfig(write_ok)
    \/ SaveTaskSerialize
    \/ \E k \in 1..MaxSaveTasks, write_ok \in BOOLEAN : SaveTaskWrite(k, write_ok)
    \/ \E write_ok \in BOOLEAN : ResetToDefault(write_ok)
    \/ \E enabled \in BOOLEAN : SetAutoSave(enabled)
    \/ GetConfig

SpecConfig == InitNew /\ [][NextConfig]_vars

\* whether update_config with the updater returns Ok
Succeeds(updater) == AppConfig_validate(apply(updater, app_config)) = "Ok"

\* successful update_config calls with auto_save on, and the saves they
\* spawn, every write of which succeeds
NextAutoSave ==
    \/ \E updater \in Updaters :
          SavesRunning < MaxSaveTasks /\ Succeeds(updater) /\ UpdateConfig(updater)
    \/ SaveTaskSerialize
    \/ \E k \in 1..MaxSaveTasks : SaveTaskWrite(k, TRUE)

SpecAutoSave == InitNew /\ [][NextAutoSave]_vars

\* the start and stop buttons pressed twice, each handler on its own thread;
\* the game state changes while no handler is spawned
NextUi ==
    \/ \E t \in UiThreads, op \in {"start", "stop"} : Clicked(t, op)
    \/ \E t \in UiThreads : WriteStateManager(t)
    \/ Calls("start") /\ StartCoreRejected
    \/ Calls("start") /\ StartCoreBegin
    \/ StartCoreFinish
    \/ Calls("stop") /\ StopCoreRejected
    \/ Calls("stop") /\ StopCoreBegin
    \/ StopCoreFinish
    \/ \E t \in UiThreads : HandlerReturns(t)
    \/ \E g \in GameState :
          (\A t \in UiThreads : ui[t].status = "none") /\ UpdateGameState(g)

SpecUi == InitNew /\ [][NextUi]_vars

\* the mode selector changed twice, each handler on its own thread, and the
\* saves update_config spawns
NextModeUi ==
    \/ \E t \in UiThreads, mode \in OperationMode : ModeChanged(t, mode)
    \/ \E t \in UiThreads : WriteModeManager(t)
    \/ \E mode \in OperationMode : Switches(mode) /\ SwitchMode(mode)
    \/ \E t \in UiThreads : Switched(t)
    \/ \E t \in UiThreads : UpdateMode(t)
    \/ \E updater \in Updaters : Updates(updater) /\ UpdateConfig(updater)
    \/ \E t \in UiThreads : ModeHandlerReturns(t)
    \/ NoUpdateMode /\ SaveTaskSerialize
    \/ \E k \in 1..MaxSaveTasks, write_ok \in BOOLEAN :
          NoUpdateMode /\ SaveTaskWrite(k, write_ok)

SpecModeUi == InitNew /\ [][NextModeUi]_vars

\* the bitmap capture of a tracked window and of no window, under a running
\* clock
NextCapture ==
    \/ Elapse
    \/ \E bitmap_ok \in BOOLEAN : CaptureWindow(bitmap_ok)
    \/ \E image_ok \in BOOLEAN : CaptureGameScreenCached(image_ok)
    \/ ClearCache
    \/ \E duration \in CacheDurations : SetCacheDuration(duration)

\* one window tracked, or none
InitCaptureOf == InitTracked({w \in CoordWindows : w.position = <<0, 0>> /\ w.size = <<2, 3>>})

SpecCapture == InitCaptureOf /\ [][NextCapture]_vars

\* ------------------------------------------------------------------------
\* Properties
\* ------------------------------------------------------------------------
\* C1: in every reachable state can_start_core() is true exactly when
\* program_state = Stopped and game_state is Detected or InBattle, where
\* game_state is the state given to the latest update_game_state call, and
\* can_stop_core() is true exactly when program_state = Running.
C1_StartStopPredicates ==
    /\ can_start_core(state) <=>
            (state.program_state = "Stopped" /\ state.game_state \in {"Detected", "InBattle"})
    /\ can_stop_core(state) <=> (state.program_state = "Running")
    /\ lastCall.op = "update_game_state" =>
            (can_start_core(state) <=>
                (state.program_state = "Stopped" /\ lastCall.arg \in {"Detected", "InBattle"}))

C1_Witness ==
    /\ lastCall.op = "update_game_state"
    /\ lastCall.arg = "InBattle"
    /\ lastCall.pre.game_state = "NotDetected"
    /\ can_start_core(state)

\* C2: start_core() called while can_start_core() is false and stop_core()
\* called while can_stop_core() is false return InvalidTransition, leave
\* program_state, game_state and last_updated as they were and hand no event
\* to the observers or to the event bus.
C2_RejectedCallChangesNothing ==
    /\ (lastCall.op = "start_core" /\ ~can_start_core(lastCall.pre))
            => lastCall.result = "InvalidTransition"
    /\ (lastCall.op = "stop_core" /\ ~can_stop_core(lastCall.pre))
            => lastCall.result = "InvalidTransition"
    /\ (lastCall.op \in {"start_core", "stop_core"} /\ lastCall.result = "InvalidTransition")
            => /\ state = lastCall.pre
               /\ lastCall.events = <<>>
               /\ lastCall.calls = <<>>
               /\ pc = "idle"

C2_Witness ==
    /\ lastCall.op = "start_core"
    /\ lastCall.result = "InvalidTransition"
    /\ state.program_state = "Running"
    /\ Len(observers) = 2
    /\ now > state.last_updated

\* the transition old -> new carried by an event or by an observer call
EventEdge(e) == <<e.type, e.old_state, e.new_state>>
CallEdge(c) == <<c.kind, c.old, c.new>>
Edges(calls) == [k \in 1..Len(calls) |-> CallEdge(calls[k])]

\* the callbacks a call made to the observer registered at position i
CallsOfSlot(calls, i) == SelectSeq(calls, LAMBDA c : c.idx = i)

\* C3: a start_core() that returns Ok has handed exactly two
\* ProgramStateChanged events to the event bus, Stopped -> Starting then
\* Starting -> Running, has called every registered observer with these two
\* transitions in that order, and leaves program_state = Running.
C3_StartEmitsTwoEvents ==
    (lastCall.op = "start_core" /\ lastCall.result = "Ok") =>
        /\ Len(lastCall.events) = 2
        /\ EventEdge(lastCall.events[1]) = <<"ProgramStateChanged", "Stopped", "Starting">>
        /\ EventEdge(lastCall.events[2]) = <<"ProgramStateChanged", "Starting", "Running">>
        /\ \A i \in 1..Len(observers) :
              Edges(CallsOfSlot(lastCall.calls, i)) =
                  << <<"program", "Stopped", "Starting">>, <<"program", "Starting", "Running">> >>
        /\ Len(lastCall.calls) = 2 * Len(observers)
        /\ state.program_state = "Running"

C3_Witness ==
    /\ lastCall.op = "start_core"
    /\ lastCall.result = "Ok"
    /\ observers = <<1, 2>>
    /\ pc = "idle"

\* C4: a stop_core() that returns Ok has handed exactly two
\* ProgramStateChanged events to the event bus, Running -> Stopping then
\* Stopping -> Stopped, has called every registered observer with these two
\* transitions in that order, and leaves program_state = Stopped; when the
\* call before it was a successful start_core, every observer has been
\* called exactly four times over the two calls.
C4_StopEmitsTwoEvents ==
    (lastCall.op = "stop_core" /\ lastCall.result = "Ok") =>
        /\ Len(lastCall.events) = 2
        /\ EventEdge(lastCall.events[1]) = <<"ProgramStateChanged", "Running", "Stopping">>
        /\ EventEdge(lastCall.events[2]) = <<"ProgramStateChanged", "Stopping", "Stopped">>
        /\ \A i \in 1..Len(observers) :
              Edges(CallsOfSlot(lastCall.calls, i)) =
                  << <<"program", "Running", "Stopping">>, <<"program", "Stopping", "Stopped">> >>
        /\ Len(lastCall.calls) = 2 * Len(observers)
        /\ state.program_state = "Stopped"
        /\ prevCall.op = "start_core" =>
              \A i \in 1..Len(observers) :
                  Edges(CallsOfSlot(prevCall.calls \o lastCall.calls, i)) =
                      << <<"program", "Stopped", "Starting">>,
                         <<"program", "Starting", "Running">>,
                         <<"program", "Running", "Stopping">>,
                         <<"program", "Stopping", "Stopped">> >>

C4_Witness ==
    /\ lastCall.op = "stop_core"
    /\ lastCall.result = "Ok"
    /\ prevCall.op = "start_core"
    /\ Len(observers) = 2

C6_OnlyTransitionsMutate ==
    /\ lastCall.op \notin {"start_core", "stop_core"} =>
            state.program_state = lastCall.pre.program_state
    /\ lastCall.op # "update_game_state" =>
            state.game_state = lastCall.pre.game_state

\* C6 amended: initialize, with persistence enabled and a readable state
\* file, replaces the AppState by the persisted snapshot and otherwise leaves
\* it alone; apart from initialize, only start_core and stop_core change
\* program_state and only update_game_state changes game_state: shutdown,
\* force_save_state, pause_core, add_observer and remove_observer leave both
\* fields unchanged, start_core and stop_core leave game_state unchanged and
\* update_game_state leaves program_state unchanged.
C6_OnlyTransitionsAndLoadMutate ==
    /\ lastCall.op \notin {"start_core", "stop_core", "initialize"} =>
            state.program_state = lastCall.pre.program_state
    /\ lastCall.op \notin {"update_game_state", "initialize"} =>
            state.game_state = lastCall.pre.game_state
    /\ lastCall.op = "initialize" =>
            state = IF persistence_enabled /\ is_some(file) /\ lastCall.result = "Ok"
                    THEN from_json(unwrap(file))
                    ELSE lastCall.pre

C6_Witness ==
    /\ lastCall.op = "initialize"
    /\ lastCall.result = "Ok"
    /\ lastCall.pre.program_state = "Stopped"
    /\ state.program_state = "Running"
    /\ state.game_state # lastCall.pre.game_state

\* number of events sent to the channel that subscriber s has not read
Unread(s) == chan.tail - receivers[s].next + 1

\* the state part of C7: a transition never waits for the subscribers and
\* never fails because of them
C7_Publish ==
    /\ pc = "starting" => ENABLED StartCoreFinish
    /\ pc = "stopping" => ENABLED StopCoreFinish
    /\ (pc = "idle" /\ Room(2) /\ can_start_core(state)) => ENABLED StartCoreBegin
    /\ (pc = "idle" /\ Room(2) /\ can_stop_core(state)) => ENABLED StopCoreBegin
    /\ (pc = "idle" /\ lastCall.op \in {"start_core", "stop_core", "update_game_state"})
            => lastCall.result = "Ok"

\* the step part of C7: what a receive of subscriber s returns
C7_RecvStep(s) ==
    (receivers[s].active /\ receivers'[s].got # receivers[s].got) =>
        LET it == receivers'[s].got[Len(receivers'[s].got)]
        IN  IF Unread(s) > Capacity
            THEN /\ it.type = "Lagged"
                 /\ it.missed = Unread(s) - Capacity
                 /\ receivers'[s].next = receivers[s].next + it.missed
            ELSE /\ it.type = "Event"
                 /\ it.event = published[receivers[s].next]
                 /\ receivers'[s].next = receivers[s].next + 1

\* C7: a subscriber that is more than the channel capacity behind is told on
\* its next receive how many events it lost (Lagged), these being the oldest
\* unread ones, and goes on with the oldest event the channel still holds; a
\* subscriber within the capacity receives the event at its cursor. Sending
\* never blocks or fails a transition, whatever the subscribers have read
\* and also when nobody has subscribed.
C7_LossyNonBlockingBus ==
    /\ []C7_Publish
    /\ [][\A s \in SubscriberIds : C7_RecvStep(s)]_vars

C7_Witness ==
    \E s \in SubscriberIds :
        /\ Len(receivers[s].got) >= 2
        /\ receivers[s].got[1].type = "Lagged"
        /\ receivers[s].got[2].type = "Event"
        /\ lastCall.result = "Ok"

\* the items of a receive log that are events
IsEvent(it) == it.type = "Event"

\* C8: the events a transition hands to the bus while somebody is subscribed
\* are appended to the publish history in the order they are emitted; the
\* events a subscriber has received are events of the publish history, each
\* received at most once and in publish order; a subscriber that was
\* never told Lagged has received, without a gap, every event published
\* since it subscribed up to its cursor, so all of them once it has caught up.
C8_AtMostOnceInOrder ==
    /\ (lastCall.op \in {"start_core", "stop_core", "update_game_state"}
            /\ rx_cnt(receivers) > 0) =>
            /\ Len(lastCall.events) <= Len(published)
            /\ lastCall.events = SubSeq(published,
                                        Len(published) - Len(lastCall.events) + 1,
                                        Len(published))
    /\ \A s \in SubscriberIds :
        receivers[s].active =>
            LET g == receivers[s].got
            IN  /\ \A k \in 1..Len(g) : IsEvent(g[k]) =>
                        /\ g[k].pos \in 1..Len(published)
                        /\ g[k].event = published[g[k].pos]
                /\ \A j, k \in 1..Len(g) :
                        (j < k /\ IsEvent(g[j]) /\ IsEvent(g[k])) => g[j].pos < g[k].pos
                /\ (\A k \in 1..Len(g) : IsEvent(g[k])) =>
                        /\ Len(g) = receivers[s].next - receivers[s].start
                        /\ \A k \in 1..Len(g) : g[k].pos = receivers[s].start + k - 1
                        /\ receivers[s].next <= chan.tail + 1

C8_Witness ==
    \E s \in SubscriberIds :
        /\ receivers[s].active
        /\ Len(receivers[s].got) = MaxPublished
        /\ \A k \in 1..Len(receivers[s].got) : IsEvent(receivers[s].got[k])
        /\ receivers[s].got[1].event.type = "GameStateChanged"
        /\ receivers[s].got[MaxPublished].event.type = "ProgramStateChanged"

C10_StateWrittenBeforeNotify ==
    /\ \A k \in 1..Len(lastCall.calls) : lastCall.calls[k].held = lastCall.calls[k].new
    /\ lastCall.result = "Panic" =>
            LET c == lastCall.calls[Len(lastCall.calls)]
            IN  /\ c.kind = "program" => state.program_state = c.new
                /\ c.kind = "game" => state.game_state = c.new
                /\ c.new # c.old

C10_Witness ==
    /\ lastCall.op = "start_core"
    /\ lastCall.result = "Panic"
    /\ Len(lastCall.calls) = 1
    /\ Len(observers) = 2
    /\ state.program_state = "Starting"
    /\ pc = "idle"

\* C11 as stated: start_core does not hold exclusive access to the AppState
\* while it emits, notifies and performs the startup action: a get_state
\* issued on another task during the startup action returns without waiting
\* for the lock and returns program_state = Starting.
C11_ReaderNotBlockedByStart ==
    (reader.status # "none" /\ reader.during = "starting") =>
        /\ ~reader.waited
        /\ reader.status = "returned"
        /\ unwrap(reader.saw).program_state = "Starting"

\* the AppState a successful save followed by a load gives back
Reloaded == load_state(AppState_new(now), file, TRUE)

\* a save_state of the manager has just written the AppState
JustSaved ==
    /\ lastCall.op \in {"force_save_state", "shutdown"}
    /\ lastCall.result = "Ok"
    /\ persistence_enabled

\* C12 as stated: saving a reachable AppState and then loading the file
\* yields a state equal to it in program_state, game_state and last_updated.
C12_RoundTripEqual ==
    JustSaved => Reloaded = state

\* C12 amended: saving a reachable AppState and then loading the file yields
\* the same program_state and game_state, and the last_updated of the saved
\* state rounded down to a whole number of seconds.
C12_RoundTripToTheSecond ==
    JustSaved =>
        /\ Reloaded.program_state = state.program_state
        /\ Reloaded.game_state = state.game_state
        /\ Reloaded.last_updated % TicksPerSec = 0
        /\ Reloaded.last_updated <= state.last_updated
        /\ state.last_updated < Reloaded.last_updated + TicksPerSec

C12_Witness ==
    /\ JustSaved
    /\ state.program_state = "Running"
    /\ state.last_updated > TicksPerSec
    /\ Reloaded.last_updated = TicksPerSec

\* C13 as stated: when the process ends at any point during a save, the
\* state file holds a complete snapshot (the previous or the new one) or,
\* when there was no previous snapshot, does not exist yet: never a partly
\* written or empty text.
C13_CrashKeepsSnapshot ==
    (lastCall.op = "new" /\ lastCall.arg = "crash_in_save") =>
        (file = None \/ parses(unwrap(file)))

\* C14 as stated: shutdown() halts the auto-save task before its final save:
\* when it has returned Ok the file holds the in-memory state, and as long
\* as no further call is made on the manager nothing writes to the file.
C14_ShutdownStopsAutoSave ==
    [][/\ (lastCall'.op = "shutdown" /\ lastCall'.result = "Ok" /\ persistence_enabled
            /\ lastCall' # lastCall) => file' = Some(to_json(state'))
       /\ (lastCall.op = "shutdown" /\ lastCall.result = "Ok" /\ lastCall' = lastCall)
            => file' = file]_vars

\* the statuses of an auto-save task inside save_state
InSave == {"locking", "saving", "opened"}

\* the step in which the save_state of the auto-save task i returns an error
FailedSave(i) ==
    /\ tasks[i].alive
    /\ tasks[i].status \in InSave
    /\ tasks'[i].logged = "failed"

\* C15: when the save_state of an auto-save task fails, the task is not
\* stopped and does not retry: it is back at interval_timer.tick().await, a
\* save attempt of a task begins only when that await completes, and the
\* failed save leaves the StateManager (AppState, observers, channel, handle)
\* as it was.
C15_FailedAutoSaveWaitsForTick ==
    [][\A i \in TaskIds :
        /\ FailedSave(i) =>
            /\ tasks'[i].alive
            /\ tasks'[i].status = "waiting"
            /\ UNCHANGED <<state, observers, chan, receivers, auto_save_handle,
                           auto_save_tasks, pc, lastCall>>
        /\ (tasks[i].status \notin InSave /\ tasks'[i].status \in InSave) =>
            /\ tasks[i].status = "waiting"
            /\ tasks'[i].status = "locking"]_vars

C15_Witness ==
    /\ tasks[1].alive
    /\ tasks[1].status = "waiting"
    /\ tasks[1].logged = "failed"
    /\ is_some(file)
    /\ ~parses(unwrap(file))

\* what the latest poll of the detection loop saw and did
Polled == wcall.op = "poll"
SameGeometry(a, b) ==
    a.handle = b.handle /\ a.position = b.position /\ a.size = b.size

\* C16: a poll of the window tracker emits exactly one Found when it finds
\* a match with no session tracked, exactly one Updated when the match
\* differs from the tracked session in handle, position or size, nothing
\* when it matches the session in all three, and exactly one Lost, clearing
\* the session, when a session is tracked and nothing matches; a poll with
\* no session and no match emits nothing.
C16_TrackerEvents ==
    Polled =>
        /\ (wcall.session = None /\ is_some(wcall.found)) =>
              /\ wcall.events = <<WindowFound(unwrap(wcall.found))>>
              /\ last_window = wcall.found
        /\ (is_some(wcall.session) /\ is_some(wcall.found)
              /\ ~SameGeometry(unwrap(wcall.session), unwrap(wcall.found))) =>
              /\ wcall.events = <<WindowUpdated(unwrap(wcall.found))>>
              /\ last_window = wcall.found
        /\ (is_some(wcall.session) /\ is_some(wcall.found)
              /\ SameGeometry(unwrap(wcall.session), unwrap(wcall.found))) =>
              /\ wcall.events = <<>>
              /\ last_window = wcall.session
        /\ (is_some(wcall.session) /\ wcall.found = None) =>
              /\ wcall.events = <<WindowLost>>
              /\ last_window = None
              /\ target_window = None
        /\ (wcall.session = None /\ wcall.found = None) =>
              /\ wcall.events = <<>>
              /\ last_window = None

\* a poll that found the tracked window resized and emitted Updated
C16_Witness ==
    /\ Polled
    /\ is_some(wcall.session)
    /\ is_some(wcall.found)
    /\ unwrap(wcall.session).handle = unwrap(wcall.found).handle
    /\ unwrap(wcall.session).position = unwrap(wcall.found).position
    /\ unwrap(wcall.session).size # unwrap(wcall.found).size
    /\ wcall.events = <<WindowUpdated(unwrap(wcall.found))>>

\* C17: when the tracked window keeps its handle and its title changes, the
\* poll emits Updated and the tracked session is replaced with the new
\* window information.
C17_TitleChangeUpdates ==
    (/\ Polled
     /\ is_some(wcall.session)
     /\ is_some(wcall.found)
     /\ unwrap(wcall.session).handle = unwrap(wcall.found).handle
     /\ unwrap(wcall.session).title # unwrap(wcall.found).title) =>
        /\ wcall.events = <<WindowUpdated(unwrap(wcall.found))>>
        /\ last_window = wcall.found
        /\ target_window = wcall.found

\* C18: every event the tracker emits is sent on the event channel and
\* handed to every registered callback, in registration order.
C18_EventsReachCallbacks ==
    \A k \in 1..Len(wcall.events) :
        \A c \in 1..Len(callbacks) :
            /\ Len(wcall.calls) >= (k - 1) * Len(callbacks) + c
            /\ wcall.calls[(k - 1) * Len(callbacks) + c] =
                  [idx |-> c, callback |-> callbacks[c], event |-> wcall.events[k]]

\* the latest call ran one enumeration of the desktop
Enumerated == wcall.op = "refresh_window_list"

\* the window passes the visible_only and foreground_only filters
PassesFilters(w) ==
    /\ detection_config.visible_only => w.visible
    /\ detection_config.foreground_only => desktop.foreground = w.hwnd

\* the window's title contains the configured title and its process name
\* contains the configured process name, case-insensitively
TitleAndProcessMatch(w) ==
    /\ contains(w.text, detection_config.target_window_title)
    /\ is_some(w.process_name)
    /\ contains(to_lowercase(unwrap(w.process_name)),
                to_lowercase(detection_config.target_process_name))

\* the handle of the first window of the enumeration in Matching, if any
FirstOf(Matching) ==
    IF Matching = {} THEN None
    ELSE Some(desktop.windows[CHOOSE k \in Matching : \A j \in Matching : k <= j].hwnd)

HandleOf(found) == IF is_some(found) THEN Some(unwrap(found).handle) ELSE None

\* C19: an enumeration selects the first window, in enumeration order, that
\* passes the filters and whose title and process name match; later
\* matching windows are ignored.
C19_FirstMatch ==
    Enumerated =>
        HandleOf(wcall.found) =
            FirstOf({k \in 1..Len(desktop.windows) :
                        /\ PassesFilters(desktop.windows[k])
                        /\ TitleAndProcessMatch(desktop.windows[k])})

\* the title as the enumeration reads it is not empty and the window's
\* rectangle can be read
Readable(w) ==
    /\ Len(w.text) > 0
    /\ is_some(w.rect)

\* the title match is found in the first TitleBuf - 1 characters
MatchInBuffer(w) ==
    \E k \in 0..(TitleBuf - 1) :
        /\ k <= Len(w.text)
        /\ contains(SubSeq(w.text, 1, k), detection_config.target_window_title)

\* C19 amended: an enumeration selects the first window, in enumeration
\* order, that passes the filters, has a non-empty title and a readable
\* rectangle, and whose title (within the first TitleBuf - 1 characters) and
\* process name match; windows before it that lack one of these are skipped
\* and later windows are ignored.
C19_FirstReadableMatch ==
    Enumerated =>
        /\ HandleOf(wcall.found) =
              FirstOf({k \in 1..Len(desktop.windows) :
                          /\ PassesFilters(desktop.windows[k])
                          /\ TitleAndProcessMatch(desktop.windows[k])
                          /\ Readable(desktop.windows[k])
                          /\ MatchInBuffer(desktop.windows[k])})
        /\ target_window = wcall.found

\* an enumeration of two windows that match in title and process, of which
\* the first has no readable rectangle: the second is selected
C19_Witness ==
    /\ Enumerated
    /\ Len(desktop.windows) = 2
    /\ PassesFilters(desktop.windows[1]) /\ TitleAndProcessMatch(desktop.windows[1])
    /\ PassesFilters(desktop.windows[2]) /\ TitleAndProcessMatch(desktop.windows[2])
    /\ ~is_some(desktop.windows[1].rect)
    /\ HandleOf(wcall.found) = Some(2)

\* the latest call converted a screen point for the tracked window
Converted == wcall.op = "screen_to_window_coords" /\ is_some(wcall.target)

\* the screen point lies inside the rectangle of the window
Inside(window, point) ==
    /\ point[1] >= window.position[1]
    /\ point[1] < window.position[1] + window.size[1]
    /\ point[2] >= window.position[2]
    /\ point[2] < window.position[2] + window.size[2]

\* C20: screen_to_window_coords returns the window-relative coordinates of
\* a screen point inside the window rectangle and None for every other
\* point.
C20_ScreenToWindow ==
    Converted =>
        /\ ~wcall.result.panic
        /\ IF Inside(unwrap(wcall.target), wcall.arg)
           THEN wcall.result.value =
                    Some(<<wcall.arg[1] - unwrap(wcall.target).position[1],
                           wcall.arg[2] - unwrap(wcall.target).position[2]>>)
           ELSE wcall.result.value = None

\* the latest call converted a window point to screen coordinates
ConvertedBack == wcall.op = "window_to_screen_coords"

\* the window point lies in [0, w) x [0, h)
InBounds(window, point) ==
    /\ point[1] >= 0 /\ point[1] < window.size[1]
    /\ point[2] >= 0 /\ point[2] < window.size[2]

\* C21: window_to_screen returns None when no session is tracked or the
\* point lies outside [0, w) x [0, h), and otherwise Some((wx + x, wy + y)),
\* which screen_to_window takes back to the point.
C21_WindowToScreen ==
    ConvertedBack =>
        /\ ~wcall.result.panic
        /\ IF wcall.target = None THEN wcall.result.value = None
           ELSE IF ~InBounds(unwrap(wcall.target), wcall.arg)
           THEN wcall.result.value = None
           ELSE /\ wcall.result.value =
                      Some(<<unwrap(wcall.target).position[1] + wcall.arg[1],
                             unwrap(wcall.target).position[2] + wcall.arg[2]>>)
                /\ \A c \in BOOLEAN :
                      screen_to_window_coords(unwrap(wcall.target),
                                              unwrap(wcall.result.value)[1],
                                              unwrap(wcall.result.value)[2], c)
                          = Returned(Some(wcall.arg))

\* the latest call was a capture_window made less than CaptureInterval after
\* a capture_window that returned a bitmap
SoonAfterCapture ==
    /\ ccall.op = "capture_window"
    /\ is_some(ccall.frame)
    /\ ccall.at - unwrap(ccall.frame).at < CaptureInterval

\* C22: capture never reacquires a bitmap sooner than the minimum interval
\* after the previous acquisition, and a repeated capture within the cache
\* TTL of a successful capture returns the same buffer as that capture
\* instead of failing or reacquiring.
C22_CaptureThrottledAndCached ==
    /\ (ccall.op = "capture_window" /\ ccall.acquired /\ is_some(ccall.frame)) =>
          ccall.at - unwrap(ccall.frame).at >= CaptureInterval
    /\ SoonAfterCapture =>
          /\ ccall.result = "Ok"
          /\ ccall.buffer = ccall.frame
          /\ ~ccall.acquired

\* C22 amended: capture_window never acquires a bitmap sooner than
\* CaptureInterval after the previous call that passed its throttle check; a
\* call within that interval fails with CaptureError, acquires nothing and
\* leaves last_capture_time alone. capture_game_screen_cached, called within
\* cache_duration of the capture that filled its cache, returns the cached
\* buffer without capturing again.
C22_ThrottleFailsCacheAnswers ==
    /\ (ccall.op = "capture_window" /\ ccall.acquired /\ is_some(ccall.frame)) =>
          ccall.at - unwrap(ccall.frame).at >= CaptureInterval
    /\ (ccall.op = "capture_window" /\ ccall.acquired /\ is_some(ccall.last)) =>
          ccall.at - unwrap(ccall.last) >= CaptureInterval
    /\ (ccall.op = "capture_window" /\ is_some(ccall.last)
          /\ ccall.at - unwrap(ccall.last) < CaptureInterval) =>
          /\ ccall.result = "CaptureError"
          /\ ccall.buffer = None
          /\ ~ccall.acquired
          /\ last_capture_time = ccall.last
    /\ (ccall.op = "capture_game_screen_cached" /\ is_some(ccall.cached)
          /\ is_some(ccall.cache_time)
          /\ ccall.at - unwrap(ccall.cache_time) < ccall.cache_duration) =>
          /\ ccall.result = "Ok"
          /\ ccall.buffer = ccall.cached
          /\ ~ccall.acquired
          /\ cached_screenshot = ccall.cached
          /\ cache_time = ccall.cache_time

\* a capture_window one unit after a capture_window that returned a bitmap:
\* it fails with CaptureError
C22_Witness ==
    /\ SoonAfterCapture
    /\ ccall.at = unwrap(ccall.frame).at + 1
    /\ ccall.result = "CaptureError"
    /\ is_some(target_window)

\* no stop_detection is in flight and the detection is not running: the
\* service is new, or its latest stop_detection has returned
Stopped == joining = 0 /\ ~detection_running

\* C23: at most one polling thread is alive; start_detection while the
\* detection is running spawns nothing; stop_detection returns only after
\* the polling thread has exited, which it eventually does; after
\* stop_detection has returned no thread is left and no poll emits a
\* further WindowEvent.
C23_OnePollingThread ==
    /\ [](Cardinality(Alive) <= 1)
    /\ [][(StartDetectionThread /\ detection_running) => threads' = threads]_vars
    /\ [](Stopped => Alive = {})
    /\ [][Stopped => (event_queue' = event_queue \/ event_queue' = Tail(event_queue)
                        \/ event_queue' = <<>>)]_vars
    /\ (joining # 0) ~> (joining = 0)

\* stop_detection has joined a polling thread that had found the window
C23_Witness ==
    /\ wcall.op = "stop_detection"
    /\ wcall.arg \in ThreadIds
    /\ wcall.result = "Ok"
    /\ Stopped
    /\ is_some(target_window)
    /\ event_queue # <<>>

\* C24: the polling thread is never blocked by the consumer of the event
\* channel: a poll that has an event to send completes whether the Receiver
\* is still held by the service, taken and not read, or dropped, and the
\* thread goes on to its sleep and its next poll.
C24_SendNeverBlocks ==
    /\ \A i \in ThreadIds : (threads[i].pc = "poll") ~> (threads[i].pc # "poll")
    /\ [][\A i \in ThreadIds :
            (threads[i].pc = "poll" /\ threads'[i] # threads[i]) =>
                /\ threads'[i].pc \in {"sleep", "exited"}
                /\ wcall'.op = "poll"
                /\ event_queue' = IF event_receiver = "dropped" THEN event_queue
                                  ELSE event_queue \o wcall'.events]_vars

\* a poll has sent an event while MaxQueue events were unread and nobody had
\* taken the Receiver
C24_Witness ==
    /\ wcall.op = "poll"
    /\ wcall.events # <<>>
    /\ Len(event_queue) > MaxQueue
    /\ event_receiver = "held"


\* ------------------------------------------------------------------------
\* ModeManager: switching, history, reset, hotkeys
\* ------------------------------------------------------------------------

\* the configuration lacks the binding of a required operation
LacksRequired(config) == \E key \in required_keys : config.hotkeys[key] = None

\* C25: switch_mode to a mode whose hotkey map lacks a required operation
\* fails with a validation error, leaves current_mode, the history and both
\* configurations as they were and emits no event; once the configuration
\* is repaired a switch succeeds with exactly one ModeSwitch event.
C25_InvalidTargetBlocksSwitch ==
    [][\A mode \in OperationMode :
          (SwitchMode(mode) /\ mode # current_mode /\ LacksRequired(config_of(mode)))
              => /\ mcall'.result # "Ok"
                 /\ mcall'.events = <<>>
                 /\ UNCHANGED <<current_mode, mode_history, macro_config,
                                intelligent_config>>]_vars

\* what a successful switch to mode does: the mode is current, one entry for
\* it is pushed onto the history (the oldest entry leaves when the length
\* passes max_history) and the one event sent is ModeSwitch{from, to}
SwitchEffect(mode) ==
    LET pushed == Append(mode_history, mode)
    IN  /\ current_mode' = mode
        /\ mode_history' = IF Len(pushed) > max_history THEN Tail(pushed) ELSE pushed
        /\ mcall'.events = <<[type |-> "ModeSwitch", from |-> current_mode, to |-> mode]>>

\* C26, as stated: every switch_mode(target) that returns success sets
\* current_mode to target, appends exactly one history entry for target and
\* emits exactly one ModeSwitch{from: previous mode, to: target}.
C26_EverySuccessfulSwitch ==
    [][\A mode \in OperationMode :
          (SwitchMode(mode) /\ mcall'.result = "Ok") => SwitchEffect(mode)]_vars

\* C26, amended: every successful switch_mode(target) with target other than
\* the current mode sets current_mode to target, appends exactly one history
\* entry for target and emits exactly one ModeSwitch{from: previous mode,
\* to: target}; switch_mode(current mode) returns success, sends nothing and
\* leaves the mode, the history and both configurations as they were.
C26_SwitchToOtherMode ==
    [][\A mode \in OperationMode :
          /\ (SwitchMode(mode) /\ mcall'.result = "Ok" /\ mode # current_mode)
                 => SwitchEffect(mode)
          /\ (SwitchMode(mode) /\ mode = current_mode)
                 => /\ mcall'.result = "Ok"
                    /\ mcall'.events = <<>>
                    /\ UNCHANGED <<current_mode, mode_history, macro_config,
                                   intelligent_config, max_history>>]_vars

\* a switch from Macro to Intelligent has succeeded, and the history has its
\* second entry
C26_Witness ==
    /\ mcall.op = "switch_mode"
    /\ mcall.result = "Ok"
    /\ mcall.events = <<[type |-> "ModeSwitch", from |-> "Macro", to |-> "Intelligent"]>>
    /\ current_mode = "Intelligent"
    /\ mode_history = <<"Macro", "Intelligent">>

\* the last n entries of a sequence
LastN(seq, n) == SubSeq(seq, Len(seq) - n + 1, Len(seq))

\* the entries a step holds before it bounds the history: the old history
\* and the entry of a successful switch, or, for reset_to_defaults, the one
\* entry of Macro it seeds the cleared history with
Unbounded ==
    IF mcall'.op = "reset_to_defaults" THEN <<"Macro">>
    ELSE IF mcall'.op = "switch_mode" /\ mcall'.events # <<>>
    THEN Append(mode_history, mcall'.arg)
    ELSE mode_history

\* C27: the mode history never holds more than max_history entries, and a
\* switch_mode, reset_to_defaults or set_max_history step that has more
\* entries than the maximum keeps the newest ones in their order: the
\* entries evicted are the oldest.
C27_HistoryBounded ==
    /\ [](Len(mode_history) <= max_history)
    /\ [][mode_history' =
             LastN(Unbounded, IF Len(Unbounded) > max_history' THEN max_history'
                              ELSE Len(Unbounded))]_vars

\* a switch has evicted the first entry, Macro, of a full history
C27_Witness ==
    /\ mcall.op = "switch_mode"
    /\ max_history = DefaultMaxHistory
    /\ Len(mode_history) = max_history
    /\ mode_history[1] = "Intelligent"

\* both configurations are the default ones and the mode is Macro
Defaults ==
    /\ current_mode = "Macro"
    /\ macro_config.hotkeys = DefaultHotkeys
    /\ macro_config.overlay_settings = [enabled |-> TRUE, transparency |-> DefaultTransparency]
    /\ macro_config.battle_detection_enabled
    /\ intelligent_config.hotkeys = DefaultHotkeys
    /\ intelligent_config.overlay_settings =
           [enabled |-> TRUE, transparency |-> DefaultTransparency]
    /\ intelligent_config.intelligent_features = <<"small_number_selection">>

\* C28, as stated: reset_to_defaults, from any state, clears the mode
\* history, restores both mode configurations to their defaults and sets
\* current_mode to Macro.
C28_ResetClearsHistory ==
    [][mcall'.op = "reset_to_defaults" => Defaults' /\ mode_history' = <<>>]_vars

\* C28, amended: reset_to_defaults, from any state, restores both mode
\* configurations to their defaults, sets current_mode to Macro and resets
\* the history to what a new manager has, the one entry of Macro (no entry
\* when max_history is 0); max_history stays as it was and one ConfigUpdate
\* event is sent.
C28_ResetReseedsHistory ==
    [][mcall'.op = "reset_to_defaults"
          => /\ Defaults'
             /\ mode_history' = IF max_history = 0 THEN <<>> ELSE <<"Macro">>
             /\ max_history' = max_history
             /\ mcall'.result = "Ok"
             /\ mcall'.events = <<[type |-> "ConfigUpdate", mode |-> "Macro",
                                   config_type |-> "reset_to_defaults"]>>]_vars

\* a reset has happened on a manager whose maximum had been changed
C28_Witness ==
    /\ mcall.op = "reset_to_defaults"
    /\ max_history = MaxSetHistory
    /\ mode_history = <<"Macro">>
    /\ Defaults

\* C29: update_hotkey(op, key) binds op to key in the hotkey map of the
\* active mode and changes nothing else of that configuration; it emits one
\* HotkeyUpdate with the mode, op, the binding op had before (None if it
\* had none) and key; the configuration of the other mode, current_mode,
\* the history and max_history stay as they were.
C29_UpdateHotkeyActiveOnly ==
    [][mcall'.op = "update_hotkey"
          => LET operation == mcall'.arg[1]
                 hotkey == mcall'.arg[2]
                 old_hotkey == IF current_mode = "Macro"
                               THEN macro_config.hotkeys[operation]
                               ELSE intelligent_config.hotkeys[operation]
             IN  /\ IF current_mode = "Macro"
                    THEN /\ macro_config' =
                                [macro_config EXCEPT !.hotkeys[operation] = Some(hotkey)]
                         /\ intelligent_config' = intelligent_config
                    ELSE /\ intelligent_config' =
                                [intelligent_config EXCEPT
                                    !.hotkeys[operation] = Some(hotkey)]
                         /\ macro_config' = macro_config
                 /\ current_mode' = current_mode
                 /\ mode_history' = mode_history
                 /\ max_history' = max_history
                 /\ mcall'.result = "Ok"
                 /\ mcall'.events =
                        <<[type |-> "HotkeyUpdate", mode |-> current_mode,
                           operation |-> operation, old_hotkey |-> old_hotkey,
                           new_hotkey |-> hotkey]>>]_vars

\* in Intelligent mode an operation without a binding has got one, and the
\* macro configuration has none for it
C29_Witness ==
    /\ mcall.op = "update_hotkey"
    /\ mcall.arg = <<"test_operation", "X">>
    /\ current_mode = "Intelligent"
    /\ mcall.events[1].old_hotkey = None
    /\ intelligent_config.hotkeys["test_operation"] = Some("X")
    /\ macro_config.hotkeys["test_operation"] = None

\* ------------------------------------------------------------------------
\* ConfigService: a failing update
\* ------------------------------------------------------------------------

\* C30: an update_config whose updater produces a configuration that fails
\* validation returns an error and leaves the in-memory configuration as it
\* was before the call.
C30_FailedUpdateLeavesConfig ==
    [][(kcall'.op = "update_config" /\ kcall'.result # "Ok")
          => app_config' = app_config]_vars

\* ------------------------------------------------------------------------
\* StateManager: the registry, the walk of the program state, the tasks
\* ------------------------------------------------------------------------

\* the registry handed to the callbacks of the latest call, in call order
Notified == [k \in 1..Len(lastCall.calls) |-> lastCall.calls[k].obs]

\* C31: remove_observer(index) with index in range removes the entry at that
\* position, keeps the other entries in their order and returns true; with
\* index out of range it returns false and leaves the registry as it was.
\* The callbacks of every later call go to the entries of the registry only,
\* in its order: a removed entry is not called again.
C31_RemoveObserver ==
    /\ [][\A index \in 0..MaxObservers :
             RemoveObserver(index) =>
                IF index < Len(observers)
                THEN /\ lastCall'.result = "true"
                     /\ Len(observers') = Len(observers) - 1
                     /\ \A j \in 1..Len(observers') :
                           observers'[j] = observers[IF j <= index THEN j ELSE j + 1]
                ELSE /\ lastCall'.result = "false"
                     /\ observers' = observers]_vars
    /\ [](\A k \in 1..Len(Notified) :
             /\ Len(observers) > 0
             /\ Notified[k] = observers[((k - 1) % Len(observers)) + 1])

\* the first of two different observers has been removed
C31_Witness ==
    /\ lastCall.op = "remove_observer"
    /\ lastCall.result = "true"
    /\ lastCall.pre.program_state = "Running"
    /\ observers = <<2>>

\* the edges of the cycle Stopped -> Starting -> Running -> Stopping -> Stopped
CycleEdges ==
    {<<"Stopped", "Starting">>, <<"Starting", "Running">>,
     <<"Running", "Stopping">>, <<"Stopping", "Stopped">>}

\* the ProgramStateChanged events the latest call has emitted, in order
ProgramEvents ==
    SelectSeq(lastCall.events, LAMBDA e : e.type = "ProgramStateChanged")

\* every ProgramStateChanged event of the latest call is an edge of the
\* cycle that starts where the one before it ended, the first of them at the
\* program state the call found
EventsWalk ==
    \A k \in 1..Len(ProgramEvents) :
        /\ <<ProgramEvents[k].old_state, ProgramEvents[k].new_state>> \in CycleEdges
        /\ ProgramEvents[k].old_state =
               IF k = 1 THEN lastCall.pre.program_state
               ELSE ProgramEvents[k - 1].new_state

\* the program state is where the latest event left it: the call found it
\* there, and a call without a ProgramStateChanged event does not move it
StateFollowsEvents ==
    state.program_state =
        IF Len(ProgramEvents) > 0 THEN ProgramEvents[Len(ProgramEvents)].new_state
        ELSE lastCall.pre.program_state

\* C32, as stated: the ProgramStateChanged events an observer sees are a walk
\* on the cycle: each is an edge of it, and its old_state is the new_state
\* of the event before it (the initial program state for the first): every
\* call's events are such a walk from the program state the call finds, and
\* the program state is always where the latest event left it.
C32_EventsWalkTheCycle == EventsWalk /\ StateFollowsEvents

\* C32, amended: as above, except that initialize() moves the program state
\* to the one of the snapshot it loads without an event: the next event
\* starts there.
C32_EventsWalkFromLoadedState ==
    /\ EventsWalk
    /\ lastCall.op # "initialize" => StateFollowsEvents
    /\ (lastCall.op = "initialize" /\ state.program_state # lastCall.pre.program_state)
           => /\ lastCall.result = "Ok"
              /\ is_some(file)
              /\ state.program_state = unwrap(file)[1]

\* a stop_core has returned right after a start_core: the cycle is walked
C32_Witness ==
    /\ lastCall.op = "stop_core"
    /\ lastCall.result = "Ok"
    /\ Len(ProgramEvents) = 2
    /\ prevCall.op = "start_core"
    /\ Len(observers) > 0
    /\ Len(lastCall.calls) = 2 * Len(observers)

\* ------------------------------------------------------------------------
\* MainApp: concurrent handlers
\* ------------------------------------------------------------------------

\* both buttons presses were start requests made while can_start_core held,
\* and both handlers have returned
BothStartsDone ==
    \A t \in UiThreads :
        ui[t].op = "start" /\ ui[t].could /\ ui[t].status = "done"

\* the step emits the event old -> new as the next event of the call in flight
Emits(old, new) ==
    /\ Len(lastCall'.events) = Len(lastCall.events) + 1
    /\ LET e == lastCall'.events[Len(lastCall'.events)]
       IN  <<e.type, e.old_state, e.new_state>> = <<"ProgramStateChanged", old, new>>

\* C33: of two start requests issued concurrently from the UI while
\* can_start_core holds exactly one succeeds and the other fails with
\* InvalidTransition, and two ProgramStateChanged events are emitted in
\* all; a start and a stop do not interleave: between the Starting and the
\* Running event of a start (the Stopping and the Stopped event of a stop)
\* the manager does nothing else and emits no other event.
C33_ConcurrentStartsSerialized ==
    /\ [](BothStartsDone =>
             /\ {ui[t].result : t \in UiThreads} = {"Ok", "InvalidTransition"}
             /\ \E t \in UiThreads :
                   /\ ui[t].result = "Ok"
                   /\ ui[t].emitted = 2
                   /\ \A u \in UiThreads \ {t} :
                         ui[u].result = "InvalidTransition" /\ ui[u].emitted = 0)
    /\ [][pc = "starting" =>
             \/ UNCHANGED <<state, lastCall, chan, published>>
             \/ pc' = "idle" /\ Emits("Starting", "Running")]_vars
    /\ [][pc = "stopping" =>
             \/ UNCHANGED <<state, lastCall, chan, published>>
             \/ pc' = "idle" /\ Emits("Stopping", "Stopped")]_vars

\* two concurrent start requests have returned; the second thread won
C33_Witness ==
    /\ BothStartsDone
    /\ ui[1].result = "InvalidTransition"
    /\ ui[2].result = "Ok"
    /\ state.program_state = "Running"

\* C34: whenever no start_core or stop_core call is in progress the program
\* state is Stopped or Running, and the snapshot in the state file (written
\* by the auto-save task, force_save_state or shutdown) does not hold the
\* transient states Starting or Stopping.
C34_NoTransientStateAtRest ==
    /\ pc = "idle" => state.program_state \in {"Stopped", "Running"}
    /\ (is_some(file) /\ parses(unwrap(file)))
           => from_json(unwrap(file)).program_state \in {"Stopped", "Running"}

\* the last WindowEvent sent on the channel, None when none was sent yet
LastEvent == IF event_queue = <<>> THEN None ELSE Some(event_queue[Len(event_queue)])

\* no stop_detection is waiting for its thread and no polling thread is
\* inside an iteration of its loop
NoOperationInProgress ==
    /\ joining = 0
    /\ \A i \in ThreadIds : threads[i].pc # "poll"

\* whether the event announces or updates a session
Announces(event) == event.type \in {"WindowFound", "WindowUpdated"}

\* C35: whenever no operation is in progress, a window is tracked exactly
\* when the last WindowEvent sent is Found or Updated, and the tracked
\* WindowInfo is then the one that event carries
C35_SessionAgreesWithEvents ==
    NoOperationInProgress =>
        /\ is_some(target_window) <=>
               (is_some(LastEvent) /\ Announces(unwrap(LastEvent)))
        /\ is_some(target_window) /\ is_some(LastEvent) =>
               unwrap(LastEvent).info = target_window

\* the event the channel held before its last one, None when there is none
PreviousEvent(k) == IF k = 1 THEN None ELSE Some(event_queue[k - 1])

\* whether the k-th event of the channel may follow the one before it
WellFormedAt(k) ==
    LET prev == PreviousEvent(k)
    IN  IF event_queue[k].type = "WindowFound"
        THEN prev = None \/ unwrap(prev).type = "WindowLost"
        ELSE is_some(prev) /\ Announces(unwrap(prev))

\* C36: on the channel, Found comes first or after Lost, and Updated and
\* Lost come after Found or Updated, across stop_detection and
\* start_detection too
C36_StreamWellFormed ==
    \A k \in 1..Len(event_queue) : WellFormedAt(k)

\* the auto-save tasks that are running
LiveTasks == {i \in TaskIds : tasks[i].alive}

\* C37: whatever initialize() and shutdown() calls are made on a manager
\* with persistence, at most one auto-save task is alive, and none is once
\* shutdown() has returned
C37_OneAutoSaveTask ==
    /\ Cardinality(LiveTasks) <= 1
    /\ lastCall.op = "shutdown" => LiveTasks = {}

\* every save that was spawned has ended
SavesCompleted == save_tasks = 0 /\ save_writes = <<>>

\* C38: after successful update_config calls with auto_save on, once every
\* spawned save has ended, the configuration file holds the configuration
\* in memory
C38_FileEqualsMemory ==
    (kcall.op # "new" /\ SavesCompleted) => config_file = Some(app_config)

\* every mode-change handler that was started has returned, and at least
\* one was
ModeHandlersFinished ==
    /\ \A t \in UiThreads : mode_ui[t].status \in {"none", "done"}
    /\ \E t \in UiThreads : mode_ui[t].status = "done"

\* C39: once the concurrently running mode-change handlers have finished,
\* the current mode of the ModeManager is the mode of the configuration
C39_ModeAgreesWithConfig ==
    ModeHandlersFinished => current_mode = app_config.mode

\* C40: when the history of the ModeManager is not empty its last entry is
\* the current mode, and no two neighbouring entries are the same mode
C40_HistoryFollowsMode ==
    /\ mode_history # <<>> => mode_history[Len(mode_history)] = current_mode
    /\ \A k \in 1..(Len(mode_history) - 1) : mode_history[k] # mode_history[k + 1]

\* a switch to the other mode was recorded in a history that was cut by
\* set_max_history before
C40_Witness ==
    /\ mcall.op = "switch_mode"
    /\ mcall.events # <<>>
    /\ max_history < DefaultMaxHistory
    /\ Len(mode_history) = max_history
    /\ Len(mode_history) >= 2

====
